---------------------------- MODULE Spec2Model ----------------------------
(***************************************************************************)
(* Streaming decoder of the Hugging Face chat provider                     *)
(* (src/src/provider.ts, first provider variant, and src/src/utils.ts).    *)
(*                                                                         *)
(* Strings are sequences of one-character strings, so that indexOf, slice, *)
(* endsWith, the regular expressions and JSON.parse are computed on the    *)
(* characters as the code computes them.  Positions are 1-based; a search  *)
(* that finds nothing yields 0 where JavaScript yields -1.                 *)
(***************************************************************************)
EXTENDS Integers, Sequences, FiniteSets, TLC

----------------------------------------------------------------------------
(* String primitives used by the decoder.                                  *)

Range(s) == { s[i] : i \in 1..Len(s) }

\* s.slice(i) with a 0-based i, i.e. the suffix after the first i characters.
SliceFrom(s, i) == SubSeq(s, i + 1, Len(s))

\* s.slice(0, n): the first n characters.
SliceTo(s, n) == SubSeq(s, 1, n)

\* the string t occurs in s at (1-based) position i
OccursAt(s, i, t) ==
    /\ i >= 1
    /\ i + Len(t) - 1 <= Len(s)
    /\ SubSeq(s, i, i + Len(t) - 1) = t

\* s.indexOf(t): the 1-based position of the first occurrence, 0 if none.
IndexOf(s, t) ==
    LET hits == { i \in 1..Len(s) : OccursAt(s, i, t) }
    IN  IF hits = {} THEN 0 ELSE CHOOSE i \in hits : \A j \in hits : i <= j

\* s.endsWith(t)
EndsWith(s, t) == Len(t) <= Len(s) /\ SubSeq(s, Len(s) - Len(t) + 1, Len(s)) = t

\* s.startsWith(t)
StartsWith(s, t) == OccursAt(s, 1, t)

Contains(s, t) == IndexOf(s, t) # 0

\* JavaScript's whitespace for String.prototype.trim and JSON's insignificant
\* whitespace, restricted to the characters of the model's alphabet.
WS == {" ", "\t", "\n", "\r"}

\* s.trim(): from the first to the last character that is no whitespace
Trim(s) ==
    LET solid == { i \in 1..Len(s) : s[i] \notin WS }
    IN  IF solid = {} THEN <<>>
        ELSE SubSeq(s, CHOOSE i \in solid : \A j \in solid : i <= j,
                       CHOOSE i \in solid : \A j \in solid : j <= i)

LowerCase == {"a","b","c","d","e","f","g","h","i","j","k","l","m",
              "n","o","p","q","r","s","t","u","v","w","x","y","z"}
UpperCase == {"A","B","C","D","E","F","G","H","I","J","K","L","M",
              "N","O","P","Q","R","S","T","U","V","W","X","Y","Z"}
Digits == {"0","1","2","3","4","5","6","7","8","9"}

\* [a-zA-Z0-9_-]  (the section-marker name class)
SectionNameChars == LowerCase \cup UpperCase \cup Digits \cup {"_", "-"}

\* [A-Za-z0-9_\-.]  (the inline header's tool-name class)
HeaderNameChars == SectionNameChars \cup {"."}

\* the length of the longest run of characters of class cls starting at position i
RunLength(s, i, cls) ==
    LET stops == { j \in i..Len(s) : s[j] \notin cls }
    IN  IF i > Len(s) THEN 0
        ELSE IF stops = {} THEN Len(s) - i + 1
        ELSE (CHOOSE j \in stops : \A k \in stops : j <= k) - i

----------------------------------------------------------------------------
(* JSON.parse and JSON.stringify on the JSON texts of the model's alphabet: *)
(* objects, arrays, strings without escapes, unsigned integers and the     *)
(* literals.  (No text of the model holds a backslash, a sign, a fraction  *)
(* or an exponent, nor an object key made of digits only.)  A parsed value *)
(* is kept as its kind, its serialized text and, for an object, its member *)
(* list in property order.                                                 *)

ParseFail == [ok |-> FALSE, kind |-> "none", text |-> <<>>, members |-> <<>>, next |-> 0]

ParseOk(kind, text, members, next) ==
    [ok |-> TRUE, kind |-> kind, text |-> text, members |-> members, next |-> next]

\* the first position at or after i that holds no whitespace
SkipWS(s, i) == i + RunLength(s, i, WS)

\* a string literal starting at the quote s[i]
ParseString(s, i) ==
    LET closing == { j \in (i + 1)..Len(s) : s[j] = "\"" }
    IN  IF closing = {} THEN ParseFail
        ELSE LET j == CHOOSE x \in closing : \A y \in closing : x <= y
                 body == SubSeq(s, i + 1, j - 1)
             IN  IF Range(body) \cap {"\\", "\t", "\n", "\r"} # {} THEN ParseFail
                 ELSE ParseOk("string", SubSeq(s, i, j), <<>>, j + 1)

\* an unsigned integer starting at the digit s[i]
ParseNumber(s, i) ==
    LET n == RunLength(s, i, Digits)
        after == i + n
    IN  IF n > 1 /\ s[i] = "0" THEN ParseFail
        ELSE IF after <= Len(s) /\ s[after] \in {".", "e", "E"} THEN ParseFail
        ELSE ParseOk("number", SubSeq(s, i, after - 1), <<>>, after)

ParseLiteral(s, i) ==
    IF OccursAt(s, i, <<"t","r","u","e">>) THEN ParseOk("true", <<"t","r","u","e">>, <<>>, i + 4)
    ELSE IF OccursAt(s, i, <<"f","a","l","s","e">>)
         THEN ParseOk("false", <<"f","a","l","s","e">>, <<>>, i + 5)
    ELSE IF OccursAt(s, i, <<"n","u","l","l">>) THEN ParseOk("null", <<"n","u","l","l">>, <<>>, i + 4)
    ELSE ParseFail

\* Property assignment of an object literal: a repeated key keeps its first
\* position and takes the last value.
PutMember(members, key, text) ==
    IF \E k \in 1..Len(members) : members[k].key = key
    THEN [k \in 1..Len(members) |->
             IF members[k].key = key THEN [key |-> key, text |-> text] ELSE members[k]]
    ELSE Append(members, [key |-> key, text |-> text])

RECURSIVE JoinMembers(_)
JoinMembers(members) ==
    IF members = <<>> THEN <<>>
    ELSE LET m == members[1]
             one == m.key \o <<":">> \o m.text
         IN  IF Len(members) = 1 THEN one
             ELSE one \o <<",">> \o JoinMembers(Tail(members))

\* JSON.stringify of a parsed object: its members in property order, no whitespace.
JSONStringify(members) == <<"{">> \o JoinMembers(members) \o <<"}">>

RECURSIVE JoinTexts(_)
JoinTexts(texts) ==
    IF texts = <<>> THEN <<>>
    ELSE IF Len(texts) = 1 THEN texts[1]
    ELSE texts[1] \o <<",">> \o JoinTexts(Tail(texts))

RECURSIVE ParseValue(_, _), ParseMembers(_, _, _), ParseElements(_, _, _)

\* the value starting at or after position i (leading whitespace skipped)
ParseValue(s, i) ==
    LET j == SkipWS(s, i)
    IN  IF j > Len(s) THEN ParseFail
        ELSE IF s[j] = "{" THEN
                 LET k == SkipWS(s, j + 1)
                 IN  IF k <= Len(s) /\ s[k] = "}"
                     THEN ParseOk("object", <<"{", "}">>, <<>>, k + 1)
                     ELSE ParseMembers(s, k, <<>>)
        ELSE IF s[j] = "[" THEN
                 LET k == SkipWS(s, j + 1)
                 IN  IF k <= Len(s) /\ s[k] = "]"
                     THEN ParseOk("array", <<"[", "]">>, <<>>, k + 1)
                     ELSE ParseElements(s, k, <<>>)
        ELSE IF s[j] = "\"" THEN ParseString(s, j)
        ELSE IF s[j] \in Digits THEN ParseNumber(s, j)
        ELSE ParseLiteral(s, j)

\* the members of an object from position i (at a key) to the closing brace
ParseMembers(s, i, acc) ==
    IF i > Len(s) \/ s[i] # "\"" THEN ParseFail
    ELSE LET key == ParseString(s, i)
         IN  IF ~key.ok THEN ParseFail
             ELSE LET c == SkipWS(s, key.next)
                  IN  IF c > Len(s) \/ s[c] # ":" THEN ParseFail
                      ELSE LET v == ParseValue(s, c + 1)
                           IN  IF ~v.ok THEN ParseFail
                               ELSE LET d == SkipWS(s, v.next)
                                        acc2 == PutMember(acc, key.text, v.text)
                                    IN  IF d > Len(s) THEN ParseFail
                                        ELSE IF s[d] = "}"
                                             THEN ParseOk("object", JSONStringify(acc2), acc2, d + 1)
                                        ELSE IF s[d] = ","
                                             THEN ParseMembers(s, SkipWS(s, d + 1), acc2)
                                        ELSE ParseFail

\* the elements of an array from position i to the closing bracket
ParseElements(s, i, acc) ==
    LET v == ParseValue(s, i)
    IN  IF ~v.ok THEN ParseFail
        ELSE LET d == SkipWS(s, v.next)
                 acc2 == Append(acc, v.text)
             IN  IF d > Len(s) THEN ParseFail
                 ELSE IF s[d] = "]"
                      THEN ParseOk("array", <<"[">> \o JoinTexts(acc2) \o <<"]">>, <<>>, d + 1)
                 ELSE IF s[d] = "," THEN ParseElements(s, d + 1, acc2)
                 ELSE ParseFail

\* JSON.parse(text): one value, surrounded by whitespace only
JSONParse(s) ==
    LET Whole(v) == IF v.ok /\ SkipWS(s, v.next) > Len(s) THEN v ELSE ParseFail
    IN  Whole(ParseValue(s, 1))

\* a tryParseJSONObject that takes every JSON value for an object
tryParseJSONValue(text) ==
    LET AsValue(v) == IF v.ok THEN [ok |-> TRUE, value |-> v.members]
                      ELSE [ok |-> FALSE, value |-> <<>>]
    IN  IF text = <<>> \/ "{" \notin Range(text) THEN [ok |-> FALSE, value |-> <<>>]
        ELSE AsValue(JSONParse(text))

\* utils.ts tryParseJSONObject: ok only for a text that holds a "{" and parses
\* to a non-null, non-array object; value is the parsed object (its members).
tryParseJSONObject(text) ==
    LET AsObject(v) == IF v.ok /\ v.kind = "object" THEN [ok |-> TRUE, value |-> v.members]
                       ELSE [ok |-> FALSE, value |-> <<>>]
    IN  IF text = <<>> \/ "{" \notin Range(text) THEN [ok |-> FALSE, value |-> <<>>]
        ELSE AsObject(JSONParse(text))

----------------------------------------------------------------------------
(* Parts reported to the progress callback.  via and index are not fields  *)
(* of the VS Code parts: they record which decoder path reported a tool    *)
(* call ("structured" or "inline") and under which stream or header index  *)
(* (-1: none), and are read by the properties only.                        *)

NoIndex == -1

\* new vscode.LanguageModelTextPart(value)
TextPart(value) ==
    [type |-> "Text", callId |-> <<>>, name |-> <<>>, input |-> <<>>, value |-> value,
     via |-> "none", index |-> NoIndex, id |-> <<>>, metadata |-> <<>>]

\* new vscode.LanguageModelToolCallPart(callId, name, input)
ToolCallPart(callId, name, input, via, index) ==
    [type |-> "ToolCall", callId |-> callId, name |-> name, input |-> input, value |-> <<>>,
     via |-> via, index |-> index, id |-> <<>>, metadata |-> <<>>]

\* new vscode.LanguageModelThinkingPart(text, id, metadata); <<>> stands for
\* an id or metadata that is undefined
ThinkingPart(text, id, metadata) ==
    [type |-> "Thinking", callId |-> <<>>, name |-> <<>>, input |-> <<>>, value |-> text,
     via |-> "none", index |-> NoIndex, id |-> id, metadata |-> metadata]

\* Math.random().toString(36).slice(2, 10): the model does not track the value
\* drawn; one token stands for the eight characters.
RandomSuffix == <<"#">>

\* `call_${random}`
SynthCallId == <<"c","a","l","l","_">> \o RandomSuffix

\* `tct_${random}`
SynthTextCallId == <<"t","c","t","_">> \o RandomSuffix

UNKNOWN_TOOL == <<"u","n","k","n","o","w","n","_","t","o","o","l">>

----------------------------------------------------------------------------
(* The provider's decoder fields, passed through the methods as one record *)
(* `t` (the instance, its progress callback and console.error).            *)

\* _textToolActive = undefined
NoTextTool == [active |-> FALSE, name |-> <<>>, index |-> NoIndex, argBuffer |-> <<>>, emitted |-> FALSE]

\* Map.prototype.get on the insertion-ordered list of buffer entries
HasBuffer(buffers, idx) == \E k \in 1..Len(buffers) : buffers[k].index = idx

GetBuffer(buffers, idx) ==
    buffers[CHOOSE k \in 1..Len(buffers) : buffers[k].index = idx]

\* Map.prototype.set: an existing key keeps its place, a new key goes last
SetBuffer(buffers, entry) ==
    IF HasBuffer(buffers, entry.index)
    THEN [k \in 1..Len(buffers) |-> IF buffers[k].index = entry.index THEN entry ELSE buffers[k]]
    ELSE Append(buffers, entry)

\* Map.prototype.delete
RECURSIVE DeleteBuffer(_, _)
DeleteBuffer(buffers, idx) ==
    IF buffers = <<>> THEN <<>>
    ELSE IF buffers[1].index = idx THEN Tail(buffers)
    ELSE <<buffers[1]>> \o DeleteBuffer(Tail(buffers), idx)

\* progress.report(part)
Report(t, part) == [t EXCEPT !.reported = Append(@, part)]

----------------------------------------------------------------------------
(* Inline control tokens (processTextContent and stripControlTokens).      *)

BEGIN == <<"<","|","t","o","o","l","_","c","a","l","l","_","b","e","g","i","n","|",">">>
ARG_BEGIN == <<"<","|","t","o","o","l","_","c","a","l","l","_","a","r","g","u","m","e","n","t","_","b","e","g","i","n","|",">">>
END == <<"<","|","t","o","o","l","_","c","a","l","l","_","e","n","d","|",">">>

SECTION_BEGIN_TAIL == <<"_","s","e","c","t","i","o","n","_","b","e","g","i","n">>
SECTION_END_TAIL == <<"_","s","e","c","t","i","o","n","_","e","n","d">>

\* the length of a match of /<\|[a-zA-Z0-9_-]+_section_(?:begin|end)\|>/ at
\* position i, 0 if none.  "|" is outside the name class, so the name and
\* the tail are the whole run of class characters between "<|" and "|>".
SectionMarkerAt(s, i) ==
    IF ~OccursAt(s, i, <<"<", "|">>) THEN 0
    ELSE LET n == RunLength(s, i + 2, SectionNameChars)
             run == SubSeq(s, i + 2, i + 1 + n)
         IN  IF /\ OccursAt(s, i + 2 + n, <<"|", ">">>)
                /\ \/ (EndsWith(run, SECTION_BEGIN_TAIL) /\ n > Len(SECTION_BEGIN_TAIL))
                   \/ (EndsWith(run, SECTION_END_TAIL) /\ n > Len(SECTION_END_TAIL))
             THEN n + 4
             ELSE 0

ARG_END == <<"<","|","t","o","o","l","_","c","a","l","l","_","a","r","g","u","m","e","n","t","_","e","n","d","|",">">>

\* the length of a match of /<\|tool_call_(?:argument_)?(?:begin|end)\|>/ at
\* position i, 0 if none
ToolCallMarkerAt(s, i) ==
    IF OccursAt(s, i, BEGIN) THEN Len(BEGIN)
    ELSE IF OccursAt(s, i, END) THEN Len(END)
    ELSE IF OccursAt(s, i, ARG_BEGIN) THEN Len(ARG_BEGIN)
    ELSE IF OccursAt(s, i, ARG_END) THEN Len(ARG_END)
    ELSE 0

\* text.replace(/.../g, ""): one left-to-right pass; the leftmost match is
\* removed and the scan resumes after it
RECURSIVE RemoveSectionMarkers(_)
RemoveSectionMarkers(s) ==
    LET starts == { i \in 1..Len(s) : SectionMarkerAt(s, i) > 0 }
    IN  IF starts = {} THEN s
        ELSE LET i == CHOOSE x \in starts : \A y \in starts : x <= y
             IN  SliceTo(s, i - 1)
                 \o RemoveSectionMarkers(SliceFrom(s, i - 1 + SectionMarkerAt(s, i)))

RECURSIVE RemoveToolCallMarkers(_)
RemoveToolCallMarkers(s) ==
    LET starts == { i \in 1..Len(s) : ToolCallMarkerAt(s, i) > 0 }
    IN  IF starts = {} THEN s
        ELSE LET i == CHOOSE x \in starts : \A y \in starts : x <= y
             IN  SliceTo(s, i - 1)
                 \o RemoveToolCallMarkers(SliceFrom(s, i - 1 + ToolCallMarkerAt(s, i)))

\* stripControlTokens: the section markers first, then the tool-call markers
stripControlTokens(text) ==
    RemoveToolCallMarkers(RemoveSectionMarkers(text))

\* the largest k in 1..min(|BEGIN|-1, |data|-1) with data ending in the first
\* k characters of BEGIN, 0 if none
longestPartialPrefix(data) ==
    LET hi == IF Len(BEGIN) - 1 < Len(data) - 1 THEN Len(BEGIN) - 1 ELSE Len(data) - 1
        ks == { k \in 1..hi : EndsWith(data, SliceTo(BEGIN, k)) }
    IN  IF ks = {} THEN 0 ELSE CHOOSE k \in ks : \A j \in ks : j <= k

\* Number(digits) for a run of decimal digits
RECURSIVE DigitsToNumber(_)
DigitsToNumber(ds) ==
    IF ds = <<>> THEN 0
    ELSE LET d == ds[Len(ds)]
             v == CASE d = "0" -> 0 [] d = "1" -> 1 [] d = "2" -> 2 [] d = "3" -> 3
                    [] d = "4" -> 4 [] d = "5" -> 5 [] d = "6" -> 6 [] d = "7" -> 7
                    [] d = "8" -> 8 [] d = "9" -> 9
         IN  10 * DigitsToNumber(SubSeq(ds, 1, Len(ds) - 1)) + v

\* a header match that captures neither the name nor the index
ParseHeaderNameless(header) == [name |-> <<>>, index |-> NoIndex]

\* header.match(/^([A-Za-z0-9_\-.]+)(?::(\d+))?/): the name (<<>> if no match)
\* and the index (NoIndex if the group is absent)
ParseHeader(header) ==
    LET n == RunLength(header, 1, HeaderNameChars)
        d == IF n > 0 /\ n + 1 <= Len(header) /\ header[n + 1] = ":"
             THEN RunLength(header, n + 2, Digits) ELSE 0
    IN  [name |-> SliceTo(header, n),
         index |-> IF d > 0 THEN DigitsToNumber(SubSeq(header, n + 2, n + 1 + d)) ELSE NoIndex]

\* an emitTextToolCallIfValid that never reports
emitTextToolCallNever(t, call, argText) == [t |-> t, did |-> FALSE]

\* an emitTextToolCallIfValid that goes by the key alone, index or not
emitTextToolCallByKey(t, call, argText) ==
    LET name == IF call.name = <<>> THEN UNKNOWN_TOOL ELSE call.name
        Emit(parsed, key) ==
            IF ~parsed.ok THEN [t |-> t, did |-> FALSE]
            ELSE IF key \in t.emittedTextToolCallKeys THEN [t |-> t, did |-> FALSE]
            ELSE LET t1 == IF call.index # NoIndex
                           THEN [t EXCEPT !.emittedTextToolCallIds = @ \cup {<<name, call.index>>}]
                           ELSE t
                     t2 == [t1 EXCEPT !.emittedTextToolCallKeys = @ \cup {key}]
                 IN  [t |-> Report(t2, ToolCallPart(SynthTextCallId, name, parsed.value,
                                                    "inline", call.index)),
                      did |-> TRUE]
        Keyed(parsed) == Emit(parsed, name \o <<":">> \o JSONStringify(parsed.value))
    IN  Keyed(tryParseJSONObject(argText))

\* an end of a call that leaves the call active
KeepActive(t) == t

\* this._textToolActive = undefined
ClearActive(t) == [t EXCEPT !.textToolActive = NoTextTool]

\* emitTextToolCallIfValid: report the inline call unless its arguments do not
\* parse or the dedup ledgers hold it; [t, did]
emitTextToolCallIfValid(t, call, argText) ==
    LET name == IF call.name = <<>> THEN UNKNOWN_TOOL ELSE call.name
        idKey == <<name, call.index>>
        Emit(parsed, key) ==
            IF ~parsed.ok THEN [t |-> t, did |-> FALSE]
            ELSE IF call.index # NoIndex /\ idKey \in t.emittedTextToolCallIds
                 THEN [t |-> t, did |-> FALSE]
            ELSE IF call.index = NoIndex /\ key \in t.emittedTextToolCallKeys
                 THEN [t |-> t, did |-> FALSE]
            ELSE LET t1 == IF call.index # NoIndex
                           THEN [t EXCEPT !.emittedTextToolCallIds = @ \cup {idKey}]
                           ELSE t
                     t2 == [t1 EXCEPT !.emittedTextToolCallKeys = @ \cup {key}]
                 IN  [t |-> Report(t2, ToolCallPart(SynthTextCallId, name, parsed.value,
                                                    "inline", call.index)),
                      did |-> TRUE]
        \* key = `${name}:${canonical}` with canonical = JSON.stringify(parsed.value)
        Keyed(parsed) == Emit(parsed, name \o <<":">> \o JSONStringify(parsed.value))
    IN  Keyed(tryParseJSONObject(argText))

\* The while loop of processTextContent: its state is the instance, the
\* unscanned data, the visible text gathered and emittedAny.
RECURSIVE ScanText(_, _, _, _)
ScanText(t, data, visibleOut, emittedAny) ==
    IF data = <<>>
    THEN [t |-> t, data |-> data, visibleOut |-> visibleOut, emittedAny |-> emittedAny]
    ELSE IF ~t.textToolActive.active THEN
        LET b == IndexOf(data, BEGIN)
        IN  IF b = 0 THEN
                LET k == longestPartialPrefix(data)
                IN  IF k > 0 THEN
                        LET visible == SliceTo(data, Len(data) - k)
                        IN  [t |-> [t EXCEPT !.textToolParserBuffer = SliceFrom(data, Len(data) - k)],
                             data |-> <<>>,
                             visibleOut |-> IF visible # <<>>
                                            THEN visibleOut \o stripControlTokens(visible)
                                            ELSE visibleOut,
                             emittedAny |-> emittedAny]
                    ELSE [t |-> t, data |-> <<>>,
                          visibleOut |-> visibleOut \o stripControlTokens(data),
                          emittedAny |-> emittedAny]
            ELSE
                LET pre == SliceTo(data, b - 1)
                    vis == IF pre # <<>> THEN visibleOut \o stripControlTokens(pre) ELSE visibleOut
                    rest == SliceFrom(data, b - 1 + Len(BEGIN))
                    a == IndexOf(rest, ARG_BEGIN)
                    e == IndexOf(rest, END)
                IN  IF a # 0 /\ (e = 0 \/ a < e) THEN
                        LET h == ParseHeader(Trim(SliceTo(rest, a - 1)))
                            call == [active |-> TRUE, name |-> h.name, index |-> h.index,
                                     argBuffer |-> <<>>, emitted |-> FALSE]
                        IN  ScanText([t EXCEPT !.textToolActive = call],
                                     SliceFrom(rest, a - 1 + Len(ARG_BEGIN)), vis, emittedAny)
                    ELSE IF e # 0 THEN
                        LET h == ParseHeader(Trim(SliceTo(rest, e - 1)))
                            call == [active |-> TRUE, name |-> h.name, index |-> h.index,
                                     argBuffer |-> <<>>, emitted |-> FALSE]
                            Resume(r) ==
                                ScanText(ClearActive(r.t),
                                         SliceFrom(rest, e - 1 + Len(END)), vis,
                                         emittedAny \/ r.did)
                        IN  Resume(emitTextToolCallIfValid([t EXCEPT !.textToolActive = call],
                                                           call, <<"{", "}">>))
                    ELSE [t |-> [t EXCEPT !.textToolParserBuffer = BEGIN \o rest],
                          data |-> <<>>, visibleOut |-> vis, emittedAny |-> emittedAny]
    ELSE
        LET e2 == IndexOf(data, END)
            act == t.textToolActive
        IN  IF e2 = 0 THEN
                LET grown == [act EXCEPT !.argBuffer = @ \o data]
                    t1 == [t EXCEPT !.textToolActive = grown]
                    Settle(r) ==
                        [t |-> IF r.did THEN [r.t EXCEPT !.textToolActive.emitted = TRUE]
                               ELSE r.t,
                         data |-> <<>>, visibleOut |-> visibleOut,
                         emittedAny |-> emittedAny \/ r.did]
                IN  Settle(IF ~grown.emitted
                           THEN emitTextToolCallIfValid(t1, grown, grown.argBuffer)
                           ELSE [t |-> t1, did |-> FALSE])
            ELSE
                LET grown == [act EXCEPT !.argBuffer = @ \o SliceTo(data, e2 - 1)]
                    t1 == [t EXCEPT !.textToolActive = grown]
                    Resume(r) ==
                        ScanText(ClearActive(r.t),
                                 SliceFrom(data, e2 - 1 + Len(END)), visibleOut,
                                 emittedAny \/ r.did)
                IN  Resume(IF ~grown.emitted
                           THEN emitTextToolCallIfValid(t1, grown, grown.argBuffer)
                           ELSE [t |-> t1, did |-> FALSE])

\* a processTextContent that scans every delta as if no inline call were open
processTextContentOutsideCall(t, input) ==
    LET Finish(s) ==
            LET hasText == s.visibleOut # <<>>
                t1 == IF hasText THEN Report(s.t, TextPart(s.visibleOut)) ELSE s.t
            IN  [t |-> [t1 EXCEPT !.textToolParserBuffer = s.data],
                 emittedText |-> hasText,
                 emittedAny |-> s.emittedAny \/ hasText]
    IN  Finish(ScanText([t EXCEPT !.textToolActive = NoTextTool],
                        t.textToolParserBuffer \o input, <<>>, FALSE))

\* processTextContent(input, progress): scan residual + input, report the
\* visible text gathered, store the leftover; [t, emittedText, emittedAny]
processTextContent(t, input) ==
    LET Finish(s) ==
            LET hasText == s.visibleOut # <<>>
                t1 == IF hasText THEN Report(s.t, TextPart(s.visibleOut)) ELSE s.t
            IN  [t |-> [t1 EXCEPT !.textToolParserBuffer = s.data],
                 emittedText |-> hasText,
                 emittedAny |-> s.emittedAny \/ hasText]
    IN  Finish(ScanText(t, t.textToolParserBuffer \o input, <<>>, FALSE))

\* flushActiveTextToolCall: at [DONE], report the active inline call if its
\* arguments parse, and clear it; an unparseable one stays active
flushActiveTextToolCall(t) ==
    IF ~t.textToolActive.active THEN t
    ELSE LET argText == t.textToolActive.argBuffer
             parsed == tryParseJSONObject(argText)
         IN  IF ~parsed.ok THEN t
             ELSE ClearActive(emitTextToolCallIfValid(t, t.textToolActive, argText).t)

----------------------------------------------------------------------------
(* Structured tool calls (processDelta and the tool-call buffers).         *)

INVALID_JSON == "Invalid JSON for tool call"

\* a tryEmitBufferedToolCall that reports the call and keeps its buffer entry
tryEmitKeepEntry(t, index) ==
    IF ~HasBuffer(t.toolCallBuffers, index) THEN t
    ELSE LET buf == GetBuffer(t.toolCallBuffers, index)
             Emit(canParse) ==
                 IF buf.name = <<>> \/ ~canParse.ok THEN t
                 ELSE Report(t, ToolCallPart(IF buf.id = <<>> THEN SynthCallId ELSE buf.id,
                                             buf.name, canParse.value, "structured", index))
         IN  Emit(tryParseJSONObject(buf.args))

\* a tryEmitBufferedToolCall that leaves every call to the final flush
tryEmitDeferred(t, index) == t

\* tryEmitBufferedToolCall: report the buffered call of `index` once it has a
\* name and its arguments parse as a JSON object
tryEmitBufferedToolCall(t, index) ==
    IF ~HasBuffer(t.toolCallBuffers, index) THEN t
    ELSE LET buf == GetBuffer(t.toolCallBuffers, index)
             Emit(canParse) ==
                 IF buf.name = <<>> THEN t
                 ELSE IF ~canParse.ok THEN t
                 ELSE LET id == IF buf.id = <<>> THEN SynthCallId ELSE buf.id
                          canonical == JSONStringify(canParse.value)
                          t1 == [t EXCEPT !.emittedTextToolCallKeys =
                                              @ \cup {buf.name \o <<":">> \o canonical}]
                          t2 == Report(t1, ToolCallPart(id, buf.name, canParse.value,
                                                        "structured", index))
                      IN  [t2 EXCEPT !.toolCallBuffers = DeleteBuffer(@, index),
                                     !.completedToolCallIndices = @ \cup {index}]
         IN  Emit(tryParseJSONObject(buf.args))

\* the loop of flushToolCallBuffers over the entries snapshot; [t, thrown]
RECURSIVE FlushEntries(_, _, _)
FlushEntries(t, entries, throwOnInvalid) ==
    IF entries = <<>> THEN [t |-> t, thrown |-> ""]
    ELSE LET buf == entries[1]
             Flush(parsed) ==
                 IF ~parsed.ok THEN
                     IF throwOnInvalid
                     THEN [t |-> [t EXCEPT !.consoleErrors = @ \cup {INVALID_JSON}],
                           thrown |-> INVALID_JSON]
                     ELSE FlushEntries(t, Tail(entries), throwOnInvalid)
                 ELSE LET id == IF buf.id = <<>> THEN SynthCallId ELSE buf.id
                          name == IF buf.name = <<>> THEN UNKNOWN_TOOL ELSE buf.name
                          canonical == JSONStringify(parsed.value)
                          t1 == [t EXCEPT !.emittedTextToolCallKeys =
                                              @ \cup {name \o <<":">> \o canonical}]
                          t2 == Report(t1, ToolCallPart(id, name, parsed.value,
                                                        "structured", buf.index))
                          t3 == [t2 EXCEPT !.toolCallBuffers = DeleteBuffer(@, buf.index),
                                           !.completedToolCallIndices = @ \cup {buf.index}]
                      IN  FlushEntries(t3, Tail(entries), throwOnInvalid)
         IN  Flush(tryParseJSONObject(buf.args))

\* a flushToolCallBuffers that is strict whatever its caller asks for
flushAlwaysStrict(t, throwOnInvalid) ==
    IF Len(t.toolCallBuffers) = 0 THEN [t |-> t, thrown |-> ""]
    ELSE FlushEntries(t, t.toolCallBuffers, TRUE)

\* a flushToolCallBuffers that passes over the entries that have no name
flushNamedOnly(t, throwOnInvalid) ==
    LET Named(buf) == buf.name # <<>>
    IN  IF Len(t.toolCallBuffers) = 0 THEN [t |-> t, thrown |-> ""]
        ELSE FlushEntries(t, SelectSeq(t.toolCallBuffers, Named), throwOnInvalid)

\* flushToolCallBuffers(progress, throwOnInvalid); [t, thrown]
flushToolCallBuffers(t, throwOnInvalid) ==
    IF Len(t.toolCallBuffers) = 0 THEN [t |-> t, thrown |-> ""]
    ELSE FlushEntries(t, t.toolCallBuffers, throwOnInvalid)

\* a loop that merges every fragment, also those of a completed index
RECURSIVE MergeToolCallsUnguarded(_, _)
MergeToolCallsUnguarded(t, toolCalls) ==
    IF toolCalls = <<>> THEN t
    ELSE LET tc == toolCalls[1]
             idx == IF tc.index = NoIndex THEN 0 ELSE tc.index
             old == IF HasBuffer(t.toolCallBuffers, idx)
                    THEN GetBuffer(t.toolCallBuffers, idx)
                    ELSE [index |-> idx, id |-> <<>>, name |-> <<>>, args |-> <<>>]
             buf == [index |-> idx,
                     id |-> IF tc.id # <<>> THEN tc.id ELSE old.id,
                     name |-> IF tc.name # <<>> THEN tc.name ELSE old.name,
                     args |-> old.args \o tc.arguments]
             t1 == [t EXCEPT !.toolCallBuffers = SetBuffer(@, buf)]
         IN  MergeToolCallsUnguarded(tryEmitBufferedToolCall(t1, idx), Tail(toolCalls))

\* the for loop of processDelta over delta.tool_calls
RECURSIVE MergeToolCalls(_, _)
MergeToolCalls(t, toolCalls) ==
    IF toolCalls = <<>> THEN t
    ELSE LET tc == toolCalls[1]
             idx == IF tc.index = NoIndex THEN 0 ELSE tc.index
         IN  IF idx \in t.completedToolCallIndices
             THEN MergeToolCalls(t, Tail(toolCalls))
             ELSE LET old == IF HasBuffer(t.toolCallBuffers, idx)
                             THEN GetBuffer(t.toolCallBuffers, idx)
                             ELSE [index |-> idx, id |-> <<>>, name |-> <<>>, args |-> <<>>]
                      buf == [index |-> idx,
                              id |-> IF tc.id # <<>> THEN tc.id ELSE old.id,
                              name |-> IF tc.name # <<>> THEN tc.name ELSE old.name,
                              args |-> old.args \o tc.arguments]
                      t1 == [t EXCEPT !.toolCallBuffers = SetBuffer(@, buf)]
                  IN  MergeToolCalls(tryEmitBufferedToolCall(t1, idx), Tail(toolCalls))

\* the values a `thinking` member of a frame may have
ThinkingAbsent == [kind |-> "undefined"]
ThinkingNull == [kind |-> "null"]
ThinkingString(text) == [kind |-> "string", text |-> text]
ThinkingObject(text, id, metadata) ==
    [kind |-> "object", text |-> text, id |-> id, metadata |-> metadata]

\* choice.thinking ?? deltaObj.thinking
MaybeThinking(delta) ==
    IF delta.choiceThinking.kind \notin {"undefined", "null"}
    THEN delta.choiceThinking
    ELSE delta.deltaThinking

\* the text, id and metadata the thinking branch takes from the payload
ThinkingText(mt) ==
    IF mt.kind = "object" THEN (IF mt.text.kind = "string" THEN mt.text.text ELSE <<>>)
    ELSE IF mt.kind = "string" THEN mt.text
    ELSE <<>>
ThinkingId(mt) ==
    IF mt.kind = "object" /\ mt.id.kind = "string" THEN mt.id.text ELSE <<>>
ThinkingMetadata(mt) ==
    IF mt.kind = "object" THEN mt.metadata ELSE <<>>

\* the try block of lines 482-509; t.host tells what the vscode namespace
\* offers: no LanguageModelThinkingPart ("plain"), the constructor
\* ("thinking"), or a constructor that throws ("failing"), whose error the
\* catch block swallows
ReportThinking(t, delta) ==
    LET mt == MaybeThinking(delta)
    IN  IF mt.kind # "undefined" /\ t.host = "thinking" /\ ThinkingText(mt) # <<>>
        THEN Report(t, ThinkingPart(ThinkingText(mt), ThinkingId(mt), ThinkingMetadata(mt)))
        ELSE t

\* a processDelta that gives up the frame when the thinking part cannot be
\* constructed
processDeltaThinkingUncaught(t, delta) ==
    IF ~delta.hasChoice THEN [t |-> t, thrown |-> ""]
    ELSE IF t.host = "failing" /\ ThinkingText(MaybeThinking(delta)) # <<>>
    THEN [t |-> t, thrown |-> ""]
    ELSE LET Text(res) == IF res.emittedText
                          THEN [res.t EXCEPT !.hasEmittedAssistantText = TRUE]
                          ELSE res.t
             afterThinking == ReportThinking(t, delta)
             afterText == IF delta.content # <<>>
                          THEN Text(processTextContent(afterThinking, delta.content))
                          ELSE afterThinking
             Hint(a) == IF /\ ~a.emittedBeginToolCallsHint
                           /\ a.hasEmittedAssistantText
                           /\ Len(delta.tool_calls) > 0
                        THEN [Report(a, TextPart(<<" ">>))
                                  EXCEPT !.emittedBeginToolCallsHint = TRUE]
                        ELSE a
             Finish(c) == IF delta.finish \in {"tool_calls", "stop"}
                          THEN flushToolCallBuffers(c, TRUE)
                          ELSE [t |-> c, thrown |-> ""]
         IN  Finish(MergeToolCalls(Hint(afterText), delta.tool_calls))

\* a processDelta that does not record that the hint was given
processDeltaHintRepeated(t, delta) ==
    IF ~delta.hasChoice THEN [t |-> t, thrown |-> ""]
    ELSE LET Text(res) == IF res.emittedText
                          THEN [res.t EXCEPT !.hasEmittedAssistantText = TRUE]
                          ELSE res.t
             afterText == IF delta.content # <<>>
                          THEN Text(processTextContent(t, delta.content))
                          ELSE t
             Hint(a) == IF a.hasEmittedAssistantText /\ Len(delta.tool_calls) > 0
                        THEN Report(a, TextPart(<<" ">>))
                        ELSE a
             Finish(c) == IF delta.finish \in {"tool_calls", "stop"}
                          THEN flushToolCallBuffers(c, TRUE)
                          ELSE [t |-> c, thrown |-> ""]
         IN  Finish(MergeToolCalls(Hint(afterText), delta.tool_calls))

\* processDelta(delta, progress); [t, thrown]
processDelta(t, delta) ==
    IF ~delta.hasChoice THEN [t |-> t, thrown |-> ""]
    ELSE LET \* the thinking payload of the choice or the delta
             afterThinking == ReportThinking(t, delta)
             \* if (deltaObj?.content)
             Text(res) == IF res.emittedText
                          THEN [res.t EXCEPT !.hasEmittedAssistantText = TRUE]
                          ELSE res.t
             afterText == IF delta.content # <<>>
                          THEN Text(processTextContent(afterThinking, delta.content))
                          ELSE afterThinking
             \* the whitespace hint before the first tool call
             Hint(a) == IF /\ ~a.emittedBeginToolCallsHint
                           /\ a.hasEmittedAssistantText
                           /\ Len(delta.tool_calls) > 0
                        THEN [Report(a, TextPart(<<" ">>))
                                  EXCEPT !.emittedBeginToolCallsHint = TRUE]
                        ELSE a
             \* the finish_reason of the choice
             Finish(c) == IF delta.finish \in {"tool_calls", "stop"}
                          THEN flushToolCallBuffers(c, TRUE)
                          ELSE [t |-> c, thrown |-> ""]
         IN  Finish(MergeToolCalls(Hint(afterText), delta.tool_calls))

----------------------------------------------------------------------------
(* The wire.  A byte is a one-character string, one of the two bytes of    *)
(* the encoding of U+00E9, or the name of the structured members of a      *)
(* frame (tool_calls and finish_reason), which the model keeps as one      *)
(* token of the frame's JSON text.                                         *)

LF == "\n"
CR == "\r"
LEAD_BYTE == "0xC3"
CONT_BYTE == "0xA9"
E_ACUTE == "U+00E9"
REPLACEMENT == "U+FFFD"

Frag(index, id, name, arguments) ==
    [index |-> index, id |-> id, name |-> name, arguments |-> arguments]

C1ID == <<"c","1">>
C2ID == <<"c","2">>
C3ID == <<"c","3">>
LOOKUP == <<"l","o","o","k","u","p">>
SEARCH == <<"s","e","a","r","c","h">>
ARGS_HEAD == <<"{","\"","q","\"",":">>
ARGS_TAIL == <<"\"","x","\"","}">>
ARGS_FULL == ARGS_HEAD \o ARGS_TAIL
ARGS_Q1 == <<"{","\"","q","\"",":","1","}">>
\* argument texts that parse, but to no object
ARGS_ARRAY == <<"[","{","}","]">>
ARGS_NULL == <<"n","u","l","l">>

\* the structured members a frame of the model may carry, by name
RestNames == {"-", "stop", "tool_calls", "length", "open0", "close0", "ws0", "anon0",
              "id0", "noname0", "full1", "search0", "search1", "reid0", "arr0", "null1", "name0",
              "think1", "thinkobj", "thinkempty", "thinknotext", "thinknull", "thinkboth"}

Rest(name) ==
    CASE name = "-"          -> [tool_calls |-> <<>>, finish |-> "none"]
      [] name = "stop"       -> [tool_calls |-> <<>>, finish |-> "stop"]
      [] name = "tool_calls" -> [tool_calls |-> <<>>, finish |-> "tool_calls"]
      [] name = "length"     -> [tool_calls |-> <<>>, finish |-> "length"]
      [] name = "open0"      -> [tool_calls |-> <<Frag(0, C1ID, LOOKUP, ARGS_HEAD)>>, finish |-> "none"]
      [] name = "close0"     -> [tool_calls |-> <<Frag(0, <<>>, <<>>, ARGS_TAIL)>>, finish |-> "none"]
      [] name = "ws0"        -> [tool_calls |-> <<Frag(0, <<>>, <<>>, <<" ">>)>>, finish |-> "none"]
      [] name = "anon0"      -> [tool_calls |-> <<Frag(NoIndex, <<>>, LOOKUP, ARGS_FULL)>>, finish |-> "none"]
      [] name = "id0"        -> [tool_calls |-> <<Frag(0, C1ID, <<>>, <<>>)>>, finish |-> "none"]
      [] name = "noname0"    -> [tool_calls |-> <<Frag(0, C1ID, <<>>, <<"{", "}">>)>>, finish |-> "none"]
      [] name = "full1"      -> [tool_calls |-> <<Frag(1, C2ID, LOOKUP, ARGS_FULL)>>, finish |-> "none"]
      [] name = "search0"    -> [tool_calls |-> <<Frag(0, C3ID, SEARCH, ARGS_Q1)>>, finish |-> "none"]
      [] name = "search1"    -> [tool_calls |-> <<Frag(1, C3ID, SEARCH, ARGS_Q1)>>, finish |-> "none"]
      [] name = "reid0"      -> [tool_calls |-> <<Frag(0, C2ID, SEARCH, ARGS_TAIL)>>, finish |-> "none"]
      [] name = "arr0"       -> [tool_calls |-> <<Frag(0, C1ID, LOOKUP, ARGS_ARRAY)>>, finish |-> "none"]
      [] name = "null1"      -> [tool_calls |-> <<Frag(1, C2ID, SEARCH, ARGS_NULL)>>, finish |-> "none"]
      [] name = "name0"      -> [tool_calls |-> <<Frag(0, <<>>, LOOKUP, <<>>)>>, finish |-> "none"]
      [] name = "think1"     -> [tool_calls |-> <<Frag(1, C2ID, LOOKUP, ARGS_FULL)>>, finish |-> "none"]
      [] name \in {"thinkobj", "thinkempty", "thinknotext", "thinknull", "thinkboth"}
                             -> [tool_calls |-> <<>>, finish |-> "none"]

HM == <<"h","m">>
R1 == <<"r","1">>
META == <<"m","e","t","a">>

\* the thinking members of the choice and of the delta of a frame, by the
\* name of its structured members
Thinking(name) ==
    CASE name = "think1"      -> [choice |-> ThinkingAbsent, delta |-> ThinkingString(HM)]
      [] name = "thinkobj"    -> [choice |-> ThinkingObject(ThinkingString(HM),
                                                            ThinkingString(R1), META),
                                  delta |-> ThinkingAbsent]
      [] name = "thinkempty"  -> [choice |-> ThinkingAbsent, delta |-> ThinkingString(<<>>)]
      [] name = "thinknotext" -> [choice |-> ThinkingAbsent,
                                  delta |-> ThinkingObject(ThinkingAbsent,
                                                           ThinkingString(R1), META)]
      [] name = "thinknull"   -> [choice |-> ThinkingNull, delta |-> ThinkingString(HM)]
      [] name = "thinkboth"   -> [choice |-> ThinkingString(<<>>), delta |-> ThinkingString(HM)]
      [] OTHER                -> [choice |-> ThinkingAbsent, delta |-> ThinkingAbsent]

\* new TextEncoder().encode(text) on the model's characters: U+00E9 takes two
\* bytes, every other character one
RECURSIVE Utf8Encode(_)
Utf8Encode(text) ==
    LET n == IndexOf(text, <<E_ACUTE>>)
    IN  IF n = 0 THEN text
        ELSE SliceTo(text, n - 1) \o <<LEAD_BYTE, CONT_BYTE>> \o Utf8Encode(SliceFrom(text, n))

\* decoder.decode(value, { stream: true }) on the pending bytes followed by
\* value: the text decoded and the incomplete sequence held back
Utf8Decode(bytes) ==
    LET n == Len(bytes)
        \* what the byte at i contributes: a character, or "" when it is the
        \* second byte of a pair or a lead byte still waiting for its pair
        out == [i \in 1..n |->
                  IF bytes[i] = LEAD_BYTE
                  THEN IF i = n THEN ""
                       ELSE IF bytes[i + 1] = CONT_BYTE THEN E_ACUTE ELSE REPLACEMENT
                  ELSE IF bytes[i] = CONT_BYTE
                       THEN IF i > 1 /\ bytes[i - 1] = LEAD_BYTE THEN "" ELSE REPLACEMENT
                  ELSE bytes[i]]
        Kept(c) == c # ""
    IN  [text |-> SelectSeq(out, Kept),
         pending |-> IF n > 0 /\ bytes[n] = LEAD_BYTE THEN <<LEAD_BYTE>> ELSE <<>>]

\* buffer.split("\n"): the segments between line feeds, at least one
RECURSIVE SplitLines(_)
SplitLines(s) ==
    LET n == IndexOf(s, <<LF>>)
    IN  IF n = 0 THEN <<s>>
        ELSE <<SliceTo(s, n - 1)>> \o SplitLines(SliceFrom(s, n))

DATA_PREFIX == <<"d","a","t","a",":"," ">>
DONE == <<"[","D","O","N","E","]">>

\* JSON.parse(data) of a frame's text: "{", the content characters, the
\* structured members, "}" (whitespace around it allowed); "{}" is an object
\* without choices; anything else is a SyntaxError
ParseFrame(data) ==
    LET d == Trim(data)
        n == Len(d)
        none == [hasChoice |-> FALSE, content |-> <<>>, tool_calls |-> <<>>, finish |-> "none",
                 choiceThinking |-> ThinkingAbsent, deltaThinking |-> ThinkingAbsent]
    IN  IF n = 2 /\ d = <<"{", "}">> THEN [ok |-> TRUE, delta |-> none]
        ELSE IF n >= 3 /\ d[1] = "{" /\ d[n] = "}" /\ d[n - 1] \in RestNames
                  /\ \A i \in 2..(n - 2) : d[i] \notin RestNames
             THEN [ok |-> TRUE,
                   delta |-> [hasChoice |-> TRUE, content |-> SubSeq(d, 2, n - 2),
                              tool_calls |-> Rest(d[n - 1]).tool_calls,
                              finish |-> Rest(d[n - 1]).finish,
                              choiceThinking |-> Thinking(d[n - 1]).choice,
                              deltaThinking |-> Thinking(d[n - 1]).delta]]
        ELSE [ok |-> FALSE, delta |-> none]

\* a loop body whose JSON.parse is outside the try block
ProcessLineRaising(t, line) ==
    IF ~StartsWith(line, DATA_PREFIX) THEN [t |-> t, thrown |-> ""]
    ELSE LET data == SliceFrom(line, 6)
             Done(f) == IF f.thrown # "" THEN f
                        ELSE [t |-> flushActiveTextToolCall(f.t), thrown |-> ""]
             Caught(d) == [t |-> d.t, thrown |-> ""]
         IN  IF data = DONE
             THEN Done(flushToolCallBuffers(t, FALSE))
             ELSE LET parsed == ParseFrame(data)
                  IN  IF ~parsed.ok THEN [t |-> t, thrown |-> "SyntaxError"]
                      ELSE Caught(processDelta(t, parsed.delta))

\* the body of the for loop of processStreamingResponse for one line;
\* [t, thrown].  The [DONE] branch is outside the try block, so what its
\* flushes throw leaves the loop; JSON.parse and processDelta are inside it,
\* so what they throw is caught and the loop goes on with the next line.
ProcessLine(t, line) ==
    IF ~StartsWith(line, DATA_PREFIX) THEN [t |-> t, thrown |-> ""]
    ELSE LET data == SliceFrom(line, 6)
             Done(f) == IF f.thrown # "" THEN f
                        ELSE [t |-> flushActiveTextToolCall(f.t), thrown |-> ""]
             Caught(d) == [t |-> d.t, thrown |-> ""]
         IN  IF data = DONE
             THEN Done(flushToolCallBuffers(t, FALSE))
             ELSE LET parsed == ParseFrame(data)
                  IN  IF ~parsed.ok THEN [t |-> t, thrown |-> ""]
                      ELSE Caught(processDelta(t, parsed.delta))

\* a for loop that takes the lines of a chunk last to first
RECURSIVE ProcessLinesReversed(_, _)
ProcessLinesReversed(t, lines) ==
    IF lines = <<>> THEN [t |-> t, thrown |-> ""]
    ELSE LET Rest1(r) == IF r.thrown # "" THEN r
                         ELSE ProcessLinesReversed(r.t, SubSeq(lines, 1, Len(lines) - 1))
         IN  Rest1(ProcessLine(t, lines[Len(lines)]))

\* the for loop over the complete lines of a chunk; [t, thrown]
RECURSIVE ProcessLines(_, _)
ProcessLines(t, lines) ==
    IF lines = <<>> THEN [t |-> t, thrown |-> ""]
    ELSE LET Rest1(r) == IF r.thrown # "" THEN r ELSE ProcessLines(r.t, Tail(lines))
         IN  Rest1(ProcessLine(t, lines[1]))

----------------------------------------------------------------------------
(* The session: provideLanguageModelChatResponse and the read loop of      *)
(* processStreamingResponse.                                               *)

VARIABLES
    toolCallBuffers,            \* _toolCallBuffers, in insertion order
    completedToolCallIndices,   \* _completedToolCallIndices
    hasEmittedAssistantText,    \* _hasEmittedAssistantText
    emittedBeginToolCallsHint,  \* _emittedBeginToolCallsHint
    textToolParserBuffer,       \* _textToolParserBuffer
    textToolActive,             \* _textToolActive
    emittedTextToolCallKeys,    \* _emittedTextToolCallKeys
    emittedTextToolCallIds,     \* _emittedTextToolCallIds
    reported,                   \* the parts passed to progress.report, in order
    consoleErrors,              \* the decoder's console.error messages
    buffer,                     \* processStreamingResponse's local `buffer`
    decoderPending,             \* the TextDecoder's held-back bytes
    isCancellationRequested,    \* token.isCancellationRequested
    pc,                         \* "idle", "reading" (awaiting reader.read()), "returned"
    outcome,                    \* how the request ended: "none", "completed", "cancelled", "threw"
    received,                   \* every byte read in the request, in order
    unread,                     \* the bytes a scripted response body has yet to deliver
    profile,                    \* the vocabulary of the upstream provider and the host
    secrets,                    \* what the SecretStorage holds under "huggingface.apiKey"
    chatEndpoints,              \* _chatEndpoints
    lastCall                    \* the other call made on the provider, its input and result:
                                \* a conversion, a listing, or another chat request

vars == <<toolCallBuffers, completedToolCallIndices, hasEmittedAssistantText,
          emittedBeginToolCallsHint, textToolParserBuffer, textToolActive,
          emittedTextToolCallKeys, emittedTextToolCallIds, reported, consoleErrors,
          buffer, decoderPending, isCancellationRequested, pc, outcome, received,
          unread, profile, secrets, chatEndpoints, lastCall>>

\* what a streaming session leaves alone
callVars == <<secrets, chatEndpoints, lastCall>>

\* secrets.get("huggingface.apiKey"): undefined, or the stored key
NoApiKey == <<>>
API_KEY == <<"h","f","_","k","e","y">>

\* no conversion or listing has been called
NoCall == [fn |-> "none"]

\* what the vscode namespace of the host offers: LanguageModelThinkingPart
\* ("thinking"), no such constructor ("plain"), or one that throws ("failing")
Host ==
    CASE profile = "reasoning-plain"   -> "plain"
      [] profile = "reasoning-failing" -> "failing"
      [] OTHER                         -> "thinking"

\* the instance as the record the methods take, with the host it runs in
This ==
    [toolCallBuffers |-> toolCallBuffers,
     completedToolCallIndices |-> completedToolCallIndices,
     hasEmittedAssistantText |-> hasEmittedAssistantText,
     emittedBeginToolCallsHint |-> emittedBeginToolCallsHint,
     textToolParserBuffer |-> textToolParserBuffer,
     textToolActive |-> textToolActive,
     emittedTextToolCallKeys |-> emittedTextToolCallKeys,
     emittedTextToolCallIds |-> emittedTextToolCallIds,
     reported |-> reported,
     consoleErrors |-> consoleErrors,
     host |-> Host]

\* the field initializers of the class
Fresh ==
    [toolCallBuffers |-> <<>>,
     completedToolCallIndices |-> {},
     hasEmittedAssistantText |-> FALSE,
     emittedBeginToolCallsHint |-> FALSE,
     textToolParserBuffer |-> <<>>,
     textToolActive |-> NoTextTool,
     emittedTextToolCallKeys |-> {},
     emittedTextToolCallIds |-> {},
     reported |-> <<>>,
     consoleErrors |-> {},
     host |-> Host]

Commit(t) ==
    /\ toolCallBuffers' = t.toolCallBuffers
    /\ completedToolCallIndices' = t.completedToolCallIndices
    /\ hasEmittedAssistantText' = t.hasEmittedAssistantText
    /\ emittedBeginToolCallsHint' = t.emittedBeginToolCallsHint
    /\ textToolParserBuffer' = t.textToolParserBuffer
    /\ textToolActive' = t.textToolActive
    /\ emittedTextToolCallKeys' = t.emittedTextToolCallKeys
    /\ emittedTextToolCallIds' = t.emittedTextToolCallIds
    /\ reported' = t.reported
    /\ consoleErrors' = t.consoleErrors

\* resets at the top of the request that clear what the finally block clears
ResetLikeCleanUp(t) ==
    [t EXCEPT !.toolCallBuffers = <<>>,
              !.completedToolCallIndices = {},
              !.hasEmittedAssistantText = FALSE,
              !.emittedBeginToolCallsHint = FALSE,
              !.textToolParserBuffer = <<>>,
              !.textToolActive = NoTextTool,
              !.emittedTextToolCallKeys = {}]

\* the resets at the top of provideLanguageModelChatResponse
ResetForRequest(t) ==
    [t EXCEPT !.toolCallBuffers = <<>>,
              !.completedToolCallIndices = {},
              !.hasEmittedAssistantText = FALSE,
              !.emittedBeginToolCallsHint = FALSE,
              !.textToolParserBuffer = <<>>,
              !.textToolActive = NoTextTool,
              !.emittedTextToolCallKeys = {},
              !.emittedTextToolCallIds = {}]

\* the finally block of processStreamingResponse
CleanUp(t) ==
    [t EXCEPT !.toolCallBuffers = <<>>,
              !.completedToolCallIndices = {},
              !.hasEmittedAssistantText = FALSE,
              !.emittedBeginToolCallsHint = FALSE,
              !.textToolParserBuffer = <<>>,
              !.textToolActive = NoTextTool,
              !.emittedTextToolCallKeys = {}]

\* a ProcessChunk that drops the unterminated tail of the previous chunk
ProcessChunkNoCarry(t, buf, pending, value) ==
    LET dec == Utf8Decode(pending \o value)
        segs == SplitLines(dec.text)
        lines == SubSeq(segs, 1, Len(segs) - 1)
        Body(r) == [t |-> r.t, thrown |-> r.thrown,
                    buffer |-> segs[Len(segs)], pending |-> dec.pending]
    IN  Body(ProcessLines(t, lines))

\* one iteration of the read loop on the chunk `value`: decode, split, keep
\* the unterminated tail, fold the complete lines;
\* [t, thrown, buffer, pending]
ProcessChunk(t, buf, pending, value) ==
    LET dec == Utf8Decode(pending \o value)
        segs == SplitLines(buf \o dec.text)
        lines == SubSeq(segs, 1, Len(segs) - 1)
        Body(r) == [t |-> r.t, thrown |-> r.thrown,
                    buffer |-> segs[Len(segs)], pending |-> dec.pending]
    IN  Body(ProcessLines(t, lines))

----------------------------------------------------------------------------
(* The lines an upstream provider sends.                                   *)

FrameLine(content, rest) == [kind |-> "frame", content |-> content, rest |-> rest]
DoneLine == [kind |-> "done", content |-> <<>>, rest |-> "-"]
BlankLine == [kind |-> "blank", content |-> <<>>, rest |-> "-"]
MalformedLine == [kind |-> "malformed", content |-> <<>>, rest |-> "-"]

\* the bytes of a line, its line feed included
EncodeLine(line) ==
    CASE line.kind = "frame" ->
             DATA_PREFIX \o <<"{">> \o Utf8Encode(line.content) \o <<line.rest, "}", LF>>
      [] line.kind = "done" -> DATA_PREFIX \o DONE \o <<LF>>
      [] line.kind = "blank" -> <<LF>>
      [] line.kind = "malformed" -> DATA_PREFIX \o <<"{", LF>>

HI == <<"H","i">>
SEARCH_0 == <<"s","e","a","r","c","h",":","0">>
PING == <<"p","i","n","g">>
JSON_Q1_HEAD == <<"{","\"","q","\"",":">>
JSON_Q1_TAIL == <<"1","}">>
JSON_Q2 == <<"{","\"","q","\"",":","2","}">>
\* text without a sentinel that ends in the first character of the begin marker
HI_LT == <<"H","i","<">>

\* a complete inline call with a header index
INLINE_FULL == BEGIN \o SEARCH_0 \o ARG_BEGIN \o ARGS_Q1 \o END
\* a complete inline call without a header index
INLINE_NOIDX == BEGIN \o SEARCH \o ARG_BEGIN \o ARGS_Q1 \o END
\* an inline call whose arguments are still incomplete
INLINE_OPEN == BEGIN \o SEARCH_0 \o ARG_BEGIN \o JSON_Q1_HEAD
\* an inline call whose arguments are complete, the end marker yet to come
INLINE_ARGS == BEGIN \o SEARCH_0 \o ARG_BEGIN \o ARGS_Q1
\* the same identity with other arguments
INLINE_OTHER == BEGIN \o SEARCH_0 \o ARG_BEGIN \o JSON_Q2 \o END
\* a call without arguments
INLINE_EMPTY == BEGIN \o PING \o END
\* visible text around a call whose removal joins the pieces of an end marker
INLINE_NESTED == <<"<","|","t","o","o","l","_","c","a","l","l","_","e">> \o BEGIN \o <<"x">> \o END \o <<"n","d","|",">">>

\* visible text followed by a call without arguments
HI_PING == HI \o INLINE_EMPTY
\* the end marker of a call followed by visible text
END_HI == END \o HI

\* the vocabularies of the upstream providers of the model
Profiles == {"fragments", "ids", "framing", "inline", "text", "mixed", "renamed"}

Lines(p) ==
    CASE p = "fragments" ->
             \* a structured call in fragments, finish frames, the end of the stream
             { FrameLine(<<>>, r) : r \in {"open0", "close0", "ws0", "tool_calls", "stop"} }
             \cup {DoneLine}
      [] p = "ids" ->
             \* calls whose id or name is missing or late, a second stream index
             { FrameLine(<<>>, r) : r \in {"anon0", "id0", "noname0", "full1", "tool_calls"} }
             \cup {DoneLine}
      [] p = "framing" ->
             \* text, a call, a finish that flushes nothing, lines that are no frames
             {FrameLine(HI, "-"), FrameLine(<<>>, "full1"), FrameLine(<<>>, "length"),
              BlankLine, MalformedLine}
      [] p = "inline" ->
             \* one inline identity, whole and in pieces
             { FrameLine(c, "-") : c \in {INLINE_FULL, INLINE_OPEN, INLINE_ARGS, INLINE_OTHER,
                                         JSON_Q1_TAIL, END} }
             \cup {DoneLine}
      [] p = "text" ->
             \* visible text around inline calls without index or arguments
             { FrameLine(c, "-") : c \in {HI, HI_LT, INLINE_NOIDX, INLINE_EMPTY, INLINE_NESTED,
                                         <<" ">>} }
             \cup {DoneLine}
      [] p = "mixed" ->
             \* the same call as inline text and as structured fragments
             { FrameLine(c, "-") : c \in {HI, INLINE_FULL, INLINE_NOIDX} }
             \cup { FrameLine(<<>>, r) : r \in {"search0", "search1", "tool_calls"} }
             \cup {DoneLine}
      [] p = "renamed" ->
             \* a later fragment of a call brings another id and another name
             { FrameLine(<<>>, r) : r \in {"open0", "reid0", "close0", "tool_calls"} }
             \cup {DoneLine}
      [] p = "values" ->
             \* arguments that are an array or null, a name that comes late
             { FrameLine(<<>>, r) : r \in {"arr0", "null1", "noname0", "name0", "open0",
                                          "close0"} }
      [] p = "trailing" ->
             \* visible text before a call and after the end marker of a call
             { FrameLine(c, "-") : c \in {HI, HI_PING, INLINE_OPEN, INLINE_ARGS, END_HI} }
             \cup {DoneLine}
      [] p = "shared" ->
             \* a structured call in two fragments, an inline call, a finish frame
             {FrameLine(<<>>, "open0"), FrameLine(<<>>, "close0"),
              FrameLine(INLINE_FULL, "-"), FrameLine(<<>>, "tool_calls")}
      [] p \in {"reasoning", "reasoning-plain", "reasoning-failing"} ->
             \* thinking payloads of the choice and of the delta, with and
             \* without text, beside content and a structured call
             {FrameLine(HI, "think1"), FrameLine(<<>>, "thinkobj"), FrameLine(HI, "thinkempty"),
              FrameLine(<<>>, "thinknotext"), FrameLine(<<>>, "thinknull"),
              FrameLine(HI, "thinkboth")}
      [] p = "hint" ->
             \* text and structured calls, also in one frame with an inline call
             {FrameLine(HI, "-"), FrameLine(<<>>, "full1"), FrameLine(<<>>, "search0"),
              FrameLine(HI_PING, "full1"), FrameLine(<<>>, "tool_calls")}

\* the most lines a response of the model carries
MaxLines == 3

\* the number of line feeds read so far
LinesRead == Cardinality({ i \in 1..Len(received) : received[i] = LF })

\* the provider after construction, no request made yet
Constructed ==
    /\ toolCallBuffers = <<>>
    /\ completedToolCallIndices = {}
    /\ hasEmittedAssistantText = FALSE
    /\ emittedBeginToolCallsHint = FALSE
    /\ textToolParserBuffer = <<>>
    /\ textToolActive = NoTextTool
    /\ emittedTextToolCallKeys = {}
    /\ emittedTextToolCallIds = {}
    /\ reported = <<>>
    /\ consoleErrors = {}
    /\ buffer = <<>>
    /\ decoderPending = <<>>
    /\ isCancellationRequested = FALSE
    /\ pc = "idle"
    /\ outcome = "none"
    /\ received = <<>>
    /\ chatEndpoints = <<>>
    /\ lastCall = NoCall

Init ==
    /\ Constructed
    /\ unread = <<>>
    /\ profile \in Profiles
    /\ secrets \in {NoApiKey, API_KEY}

\* a provideLanguageModelChatResponse that sends the request without a key
StartRequestUnchecked ==
    /\ pc = "idle"
    /\ Commit(ResetForRequest(This))
    /\ pc' = "fetching"
    /\ UNCHANGED <<buffer, decoderPending, isCancellationRequested, outcome, received,
                   unread, profile>>
    /\ UNCHANGED callVars

\* provideLanguageModelChatResponse is called: the resets, then
\* ensureApiKey(true), which reads the stored key and never prompts; without
\* a key the call throws, the catch block logs and rethrows; with one the
\* request is sent and the response awaited
StartRequest ==
    /\ pc = "idle"
    /\ Commit(ResetForRequest(This))
    /\ IF secrets = NoApiKey
       THEN pc' = "returned" /\ outcome' = "threw"
       ELSE pc' = "fetching" /\ outcome' = outcome
    /\ UNCHANGED <<buffer, decoderPending, isCancellationRequested, received,
                   unread, profile>>
    /\ UNCHANGED callVars

\* an exit of the read loop that finalizes what is pending before it cleans up
LeaveFinalizing(t, how) ==
    /\ Commit(CleanUp(flushActiveTextToolCall(flushToolCallBuffers(t, FALSE).t)))
    /\ pc' = "returned"
    /\ outcome' = how

\* the exit of the read loop: the finally block, then the return or the throw
Leave(t, how) ==
    /\ Commit(CleanUp(t))
    /\ pc' = "returned"
    /\ outcome' = how

\* processStreamingResponse starts: the first test of the loop condition
EnterLoop ==
    /\ pc = "fetching"
    /\ buffer' = <<>>
    /\ decoderPending' = <<>>
    /\ IF isCancellationRequested
       THEN Leave(This, "cancelled")
       ELSE Commit(This) /\ pc' = "reading" /\ outcome' = outcome
    /\ UNCHANGED <<isCancellationRequested, received, unread, profile>>
    /\ UNCHANGED callVars

\* a read loop that takes [DONE] for the end of the stream
ReadChunkEndingAtDone(value) ==
    /\ pc = "reading"
    /\ LET Loop(r) ==
               /\ buffer' = r.buffer
               /\ decoderPending' = r.pending
               /\ IF r.thrown # "" THEN Leave(r.t, "threw")
                  ELSE IF isCancellationRequested THEN Leave(r.t, "cancelled")
                  ELSE IF value = DATA_PREFIX \o DONE \o <<LF>> THEN Leave(r.t, "completed")
                  ELSE Commit(r.t) /\ pc' = "reading" /\ outcome' = outcome
       IN  Loop(ProcessChunk(This, buffer, decoderPending, value))
    /\ received' = received \o value
    /\ UNCHANGED <<isCancellationRequested, profile>>
    /\ UNCHANGED callVars

\* reader.read() resolves with the chunk `value`: the loop body, then the
\* next test of the loop condition
ReadChunk(value) ==
    /\ pc = "reading"
    /\ LET Loop(r) ==
               /\ buffer' = r.buffer
               /\ decoderPending' = r.pending
               /\ IF r.thrown # "" THEN Leave(r.t, "threw")
                  ELSE IF isCancellationRequested THEN Leave(r.t, "cancelled")
                  ELSE Commit(r.t) /\ pc' = "reading" /\ outcome' = outcome
       IN  Loop(ProcessChunk(This, buffer, decoderPending, value))
    /\ received' = received \o value
    /\ UNCHANGED <<isCancellationRequested, profile>>
    /\ UNCHANGED callVars

\* the provider sends one more line and the transport delivers it as a chunk
ReadLine ==
    /\ LinesRead < MaxLines
    /\ \E line \in Lines(profile) : ReadChunk(EncodeLine(line))
    /\ UNCHANGED unread

\* a read loop that decodes what is left in the line buffer when the
\* transport signals completion
ReadEndDecodingTail ==
    /\ pc = "reading"
    /\ unread = <<>>
    /\ Leave(ProcessLine(This, buffer).t, "completed")
    /\ UNCHANGED <<buffer, decoderPending, isCancellationRequested, received, unread, profile>>
    /\ UNCHANGED callVars

\* reader.read() resolves with done: break
ReadEnd ==
    /\ pc = "reading"
    /\ unread = <<>>
    /\ Leave(This, "completed")
    /\ UNCHANGED <<buffer, decoderPending, isCancellationRequested, received, unread, profile>>
    /\ UNCHANGED callVars

\* reader.read() rejects (the transport fails): the error propagates
ReadError ==
    /\ pc = "reading"
    /\ Leave(This, "threw")
    /\ UNCHANGED <<buffer, decoderPending, isCancellationRequested, received, unread, profile>>
    /\ UNCHANGED callVars

\* the host cancels the request
Cancel ==
    /\ pc \in {"fetching", "reading"}
    /\ ~isCancellationRequested
    /\ isCancellationRequested' = TRUE
    /\ UNCHANGED <<toolCallBuffers, completedToolCallIndices, hasEmittedAssistantText,
                   emittedBeginToolCallsHint, textToolParserBuffer, textToolActive,
                   emittedTextToolCallKeys, emittedTextToolCallIds, reported, consoleErrors,
                   buffer, decoderPending, pc, outcome, received, unread, profile>>
    /\ UNCHANGED callVars

Next ==
    \/ StartRequest
    \/ EnterLoop
    \/ ReadLine
    \/ ReadEnd
    \/ ReadError
    \/ Cancel

Spec == Init /\ [][Next]_vars

\* further vocabularies, each met by a provider that holds a key
VariantProfiles == {"values", "trailing", "hint"}

----------------------------------------------------------------------------
(* Two chat requests served one after the other by the same provider       *)
(* instance.                                                               *)

\* the vocabularies in which a session leaves calls completed or suppressed
SessionProfiles == {"fragments", "mixed"}

InitSessions ==
    /\ Constructed
    /\ unread = <<>>
    /\ profile \in SessionProfiles
    /\ secrets = API_KEY

\* provideLanguageModelChatResponse is called again after the first call has
\* returned or thrown, with a progress sink and a cancellation token of its
\* own; how the first call ended and the identity ledger it left behind are
\* kept on record
StartNextRequest ==
    /\ pc = "returned"
    /\ lastCall = NoCall
    /\ Commit([ResetForRequest(This) EXCEPT !.reported = <<>>])
    /\ IF secrets = NoApiKey
       THEN pc' = "returned" /\ outcome' = "threw"
       ELSE pc' = "fetching" /\ outcome' = "none"
    /\ isCancellationRequested' = FALSE
    /\ received' = <<>>
    /\ lastCall' = [fn |-> "provideLanguageModelChatResponse", outcome |-> outcome,
                    ids |-> emittedTextToolCallIds]
    /\ UNCHANGED <<buffer, decoderPending, unread, profile, secrets, chatEndpoints>>

NextSessions ==
    \/ StartRequest
    \/ EnterLoop
    \/ ReadLine
    \/ ReadEnd
    \/ ReadError
    \/ Cancel
    \/ StartNextRequest

SpecSessions == InitSessions /\ [][NextSessions]_vars

----------------------------------------------------------------------------
(* Two chat requests in flight at once on the same provider instance: the  *)
(* second call is made while the first is fetching or reading.  The fields *)
(* of the instance are shared; each call has its own progress sink, line   *)
(* buffer and reader.  A call runs without interruption between two        *)
(* resolutions of its reader.read(), the steps interleaved here.           *)

\* the most lines the second request's response carries
MaxOtherLines == 1

InitConcurrent ==
    /\ Constructed
    /\ unread = <<>>
    /\ profile = "shared"
    /\ secrets = API_KEY

\* the fields of the instance after a step of the second call; what the
\* first call has reported stays as it is
CommitShared(t) == Commit([t EXCEPT !.reported = reported])

\* the locals of the second call
OtherCall(at, buf, got, events, how) ==
    [fn |-> "provideLanguageModelChatResponse", pc |-> at, buffer |-> buf,
     received |-> got, reported |-> events, outcome |-> how]

\* a second call that starts without the resets
OtherStartNoReset ==
    /\ pc \in {"fetching", "reading"}
    /\ lastCall = NoCall
    /\ CommitShared(This)
    /\ lastCall' = OtherCall("reading", <<>>, <<>>, <<>>, "none")
    /\ UNCHANGED <<buffer, decoderPending, isCancellationRequested, pc, outcome, received,
                   unread, profile, secrets, chatEndpoints>>

\* provideLanguageModelChatResponse is called a second time while the first
\* call is in flight: the resets, the request, the start of its read loop
OtherStart ==
    /\ pc \in {"fetching", "reading"}
    /\ lastCall = NoCall
    /\ CommitShared(ResetForRequest(This))
    /\ lastCall' = OtherCall("reading", <<>>, <<>>, <<>>, "none")
    /\ UNCHANGED <<buffer, decoderPending, isCancellationRequested, pc, outcome, received,
                   unread, profile, secrets, chatEndpoints>>

\* the second call's reader.read() resolves with one more line
OtherReadLine ==
    /\ lastCall # NoCall
    /\ lastCall.pc = "reading"
    /\ Cardinality({ i \in 1..Len(lastCall.received) : lastCall.received[i] = LF })
           < MaxOtherLines
    /\ \E line \in Lines(profile) :
           LET Loop(r) ==
                   IF r.thrown # ""
                   THEN /\ CommitShared(CleanUp(r.t))
                        /\ lastCall' = OtherCall("returned", r.buffer,
                                                 lastCall.received \o EncodeLine(line),
                                                 r.t.reported, "threw")
                   ELSE /\ CommitShared(r.t)
                        /\ lastCall' = OtherCall("reading", r.buffer,
                                                 lastCall.received \o EncodeLine(line),
                                                 r.t.reported, "none")
           IN  Loop(ProcessChunk([This EXCEPT !.reported = lastCall.reported],
                                 lastCall.buffer, <<>>, EncodeLine(line)))
    /\ UNCHANGED <<buffer, decoderPending, isCancellationRequested, pc, outcome, received,
                   unread, profile, secrets, chatEndpoints>>

\* the second call's reader.read() resolves with done: break, the finally block
OtherReadEnd ==
    /\ lastCall # NoCall
    /\ lastCall.pc = "reading"
    /\ CommitShared(CleanUp(This))
    /\ lastCall' = [lastCall EXCEPT !.pc = "returned", !.outcome = "completed"]
    /\ UNCHANGED <<buffer, decoderPending, isCancellationRequested, pc, outcome, received,
                   unread, profile, secrets, chatEndpoints>>

NextConcurrent ==
    \/ StartRequest
    \/ EnterLoop
    \/ ReadLine
    \/ ReadEnd
    \/ OtherStart
    \/ OtherReadLine
    \/ OtherReadEnd

SpecConcurrent == InitConcurrent /\ [][NextConcurrent]_vars

\* the profiles of a provider that sends thinking payloads, one for each host
ReasoningProfiles == {"reasoning", "reasoning-plain", "reasoning-failing"}

InitReasoning ==
    /\ Constructed
    /\ unread = <<>>
    /\ profile \in ReasoningProfiles
    /\ secrets = API_KEY

SpecReasoning == InitReasoning /\ [][Next]_vars

InitVariants ==
    /\ Constructed
    /\ unread = <<>>
    /\ profile \in VariantProfiles
    /\ secrets = API_KEY

SpecVariants == InitVariants /\ [][Next]_vars

----------------------------------------------------------------------------
(* Scripted response bodies, delivered by the transport in chunks cut at    *)
(* any byte.                                                                *)

\* the bytes of a line that ends in CR LF
EncodeLineCRLF(line) ==
    LET bytes == EncodeLine(line)
    IN  SliceTo(bytes, Len(bytes) - 1) \o <<CR, LF>>

CAFE == <<"c","a","f",E_ACUTE>>

\* id, name and a first argument fragment, the rest of the arguments, the
\* finish frame, the end of the stream
BODY_FRAGMENTS ==
    EncodeLine(FrameLine(<<>>, "open0")) \o EncodeLine(FrameLine(<<>>, "close0"))
    \o EncodeLine(FrameLine(<<>>, "tool_calls")) \o EncodeLine(DoneLine)

\* the same stream with CR LF line terminators and a blank line between frames
BODY_CRLF ==
    EncodeLineCRLF(FrameLine(<<>>, "open0")) \o EncodeLineCRLF(BlankLine)
    \o EncodeLineCRLF(FrameLine(<<>>, "close0")) \o EncodeLineCRLF(FrameLine(<<>>, "tool_calls"))

\* text with a two-byte character, a structured call, text carrying an inline
\* call, a second structured call
BODY_MIXED ==
    EncodeLine(FrameLine(CAFE, "full1")) \o EncodeLine(FrameLine(INLINE_EMPTY, "-"))
    \o EncodeLine(FrameLine(<<>>, "search0")) \o EncodeLine(FrameLine(<<>>, "stop"))

\* a call without a name whose arguments parse, then a last line [DONE] that
\* no line feed ends
BODY_DONE_UNTERMINATED ==
    EncodeLine(FrameLine(<<>>, "noname0")) \o DATA_PREFIX \o DONE

\* the same call, then a finish frame that no line feed ends
BODY_FINISH_UNTERMINATED ==
    LET bytes == EncodeLine(FrameLine(<<>>, "noname0")) \o EncodeLine(FrameLine(<<>>, "tool_calls"))
    IN  SliceTo(bytes, Len(bytes) - 1)

Bodies == {BODY_FRAGMENTS, BODY_CRLF, BODY_MIXED, BODY_DONE_UNTERMINATED,
           BODY_FINISH_UNTERMINATED}

InitChunks ==
    /\ Constructed
    /\ unread \in Bodies
    /\ profile = "scripted"
    /\ secrets = API_KEY

\* reader.read() resolves with the next k bytes of the body
ReadBytes ==
    /\ unread # <<>>
    /\ \E k \in 1..Len(unread) :
           /\ ReadChunk(SliceTo(unread, k))
           /\ unread' = SliceFrom(unread, k)

NextChunks ==
    \/ StartRequest
    \/ EnterLoop
    \/ ReadBytes
    \/ ReadEnd

SpecChunks == InitChunks /\ [][NextChunks]_vars

\* the session that receives `bytes` as one chunk
OneChunk(bytes) == ProcessChunk(ResetForRequest(Fresh), <<>>, <<>>, bytes)

----------------------------------------------------------------------------
(* Inline tool-call text, delivered by the provider over successive content *)
(* deltas cut at any character.                                             *)

InlineTexts == {INLINE_FULL, INLINE_NOIDX}

\* the most content deltas a text is cut into
MaxDeltas == 3

InitDeltas ==
    /\ Constructed
    /\ unread \in InlineTexts
    /\ profile = "deltas"
    /\ secrets = API_KEY

\* the next k characters of the text arrive as the content of one frame; the
\* last delta carries what is left
ReadDelta ==
    /\ unread # <<>>
    /\ \E k \in 1..Len(unread) :
           /\ LinesRead < MaxDeltas - 1 \/ k = Len(unread)
           /\ ReadChunk(EncodeLine(FrameLine(SliceTo(unread, k), "-")))
           /\ unread' = SliceFrom(unread, k)

\* the [DONE] line after the text
ReadDone ==
    /\ unread = <<>>
    /\ received # <<>>
    /\ ~EndsWith(received, EncodeLine(DoneLine))
    /\ ReadChunk(EncodeLine(DoneLine))
    /\ UNCHANGED unread

NextDeltas ==
    \/ StartRequest
    \/ EnterLoop
    \/ ReadDelta
    \/ ReadDone
    \/ ReadEnd

SpecDeltas == InitDeltas /\ [][NextDeltas]_vars

----------------------------------------------------------------------------
(* convertMessages (utils.ts).  A property a JavaScript object does not     *)
(* have reads as undefined; the records below carry every property, the     *)
(* missing ones with the value `undefined` (for tool_calls, which is never  *)
(* an empty list when present, the empty list).                             *)

\* the object {"q":1}, by its members
OBJ_Q1_MEMBERS == <<[key |-> <<"\"", "q", "\"">>, text |-> <<"1">>]>>

undefined == <<"undefined">>

\* vscode.LanguageModelChatMessageRole
USER == 1
ASSISTANT == 2
\* any other role value
SYSTEM == 3

\* the parts of a request message: LanguageModelTextPart,
\* LanguageModelToolCallPart, a tool result (callId and content), any other part
MsgText(value) ==
    [kind |-> "text", value |-> value, callId |-> <<>>, name |-> <<>>, input |-> <<>>,
     content |-> <<>>]
MsgToolCall(callId, name, input) ==
    [kind |-> "toolCall", value |-> <<>>, callId |-> callId, name |-> name, input |-> input,
     content |-> <<>>]
MsgToolResult(callId, content) ==
    [kind |-> "toolResult", value |-> <<>>, callId |-> callId, name |-> <<>>, input |-> <<>>,
     content |-> content]
MsgOther ==
    [kind |-> "other", value |-> <<>>, callId |-> <<>>, name |-> <<>>, input |-> <<>>,
     content |-> <<>>]

\* the items of a tool result's content: a LanguageModelTextPart, a string,
\* any other value (an object, given by its members)
ItemText(value) == [kind |-> "text", value |-> value, members |-> <<>>]
ItemString(value) == [kind |-> "string", value |-> value, members |-> <<>>]
ItemObject(members) == [kind |-> "object", value |-> <<>>, members |-> members]

Message(role, content) == [role |-> role, content |-> content]

\* a mapRole that takes every message for the user's
mapRoleUser(message) == "user"

mapRole(message) ==
    IF message.role = USER THEN "user"
    ELSE IF message.role = ASSISTANT THEN "assistant"
    ELSE "system"

isToolResultPart(value) == value.kind = "toolResult"

RECURSIVE collectToolResultText(_)
collectToolResultText(content) ==
    IF content = <<>> THEN <<>>
    ELSE LET c == content[1]
         IN  (IF c.kind \in {"text", "string"} THEN c.value ELSE JSONStringify(c.members))
             \o collectToolResultText(Tail(content))

\* `${Date.now()}-${Math.random().toString(36).slice(2, 8)}`
SynthMessageCallId == <<"0", "-">> \o RandomSuffix

\* textParts.join('')
RECURSIVE TextOf(_)
TextOf(parts) ==
    IF parts = <<>> THEN <<>>
    ELSE (IF parts[1].kind = "text" THEN parts[1].value ELSE <<>>) \o TextOf(Tail(parts))

\* the toolCalls array a message's parts yield
RECURSIVE ToolCallsOf(_)
ToolCallsOf(parts) ==
    IF parts = <<>> THEN <<>>
    ELSE LET part == parts[1]
         IN  (IF part.kind = "toolCall"
              THEN <<[id |-> IF part.callId # <<>> THEN part.callId ELSE SynthMessageCallId,
                      type |-> "function",
                      function |-> [name |-> part.name,
                                    arguments |-> JSONStringify(part.input)]]>>
              ELSE <<>>)
             \o ToolCallsOf(Tail(parts))

\* the toolResults array a message's parts yield
RECURSIVE ToolResultsOf(_)
ToolResultsOf(parts) ==
    IF parts = <<>> THEN <<>>
    ELSE LET part == parts[1]
         IN  (IF isToolResultPart(part)
              THEN <<[callId |-> part.callId, content |-> collectToolResultText(part.content)]>>
              ELSE <<>>)
             \o ToolResultsOf(Tail(parts))

\* an OpenAIChatMessage
ChatMessage(role, content, tool_calls, tool_call_id) ==
    [role |-> role, content |-> content, tool_calls |-> tool_calls,
     tool_call_id |-> tool_call_id]

\* a loop body that also pushes the text of an assistant message that
\* carried tool calls
ConvertMessageTextAgain(m) ==
    LET Push(role, text, toolCalls, toolResults) ==
            (IF toolCalls # <<>>
             THEN <<ChatMessage("assistant", IF text # <<>> THEN text ELSE undefined,
                                toolCalls, undefined)>>
             ELSE <<>>)
            \o [i \in 1..Len(toolResults) |->
                   ChatMessage("tool", toolResults[i].content, <<>>, toolResults[i].callId)]
            \o (IF text # <<>> THEN <<ChatMessage(role, text, <<>>, undefined)>> ELSE <<>>)
    IN  Push(mapRole(m), TextOf(m.content), ToolCallsOf(m.content), ToolResultsOf(m.content))

\* the body of the loop over the messages: what one message pushes to `out`
ConvertMessage(m) ==
    LET Push(role, text, toolCalls, toolResults) ==
            (IF toolCalls # <<>>
             THEN <<ChatMessage("assistant", IF text # <<>> THEN text ELSE undefined,
                                toolCalls, undefined)>>
             ELSE <<>>)
            \o [i \in 1..Len(toolResults) |->
                   ChatMessage("tool", toolResults[i].content, <<>>, toolResults[i].callId)]
            \o (IF /\ text # <<>>
                   /\ \/ role = "system"
                      \/ role = "user"
                      \/ role = "assistant" /\ toolCalls = <<>>
                THEN <<ChatMessage(role, text, <<>>, undefined)>>
                ELSE <<>>)
    IN  Push(mapRole(m), TextOf(m.content), ToolCallsOf(m.content), ToolResultsOf(m.content))

RECURSIVE convertMessages(_)
convertMessages(messages) ==
    IF messages = <<>> THEN <<>>
    ELSE ConvertMessage(messages[1]) \o convertMessages(Tail(messages))

----------------------------------------------------------------------------
(* convertTools (utils.ts).                                                 *)

\* vscode.LanguageModelChatToolMode
AUTO == 1
REQUIRED == 2

\* a tool's inputSchema: undefined, or an object given by its members
NoSchema == [defined |-> FALSE, members |-> <<>>]
Schema(members) == [defined |-> TRUE, members |-> members]

\* a vscode.LanguageModelChatTool
Tool(name, description, inputSchema) ==
    [name |-> name, description |-> description, inputSchema |-> inputSchema]

\* tool_choice: missing, 'auto', or the function that is forced
NoToolChoice == [type |-> "undefined", name |-> <<>>]
ToolChoiceAuto == [type |-> "auto", name |-> <<>>]
ToolChoiceFunction(name) == [type |-> "function", name |-> name]

\* one OpenAIFunctionToolDef; parameters is the schema when it is an object
\* with at least one key, the empty list (undefined) otherwise
ToolDef(t) ==
    LET hasParams == t.inputSchema.defined /\ Len(t.inputSchema.members) > 0
    IN  [type |-> "function",
         function |-> [name |-> t.name, description |-> t.description,
                       parameters |-> IF hasParams THEN t.inputSchema.members ELSE <<>>]]

REQUIRED_ERROR == "LanguageModelChatToolMode.Required is not supported with more than one tool"

\* a convertTools that forces the first tool whatever the number of tools
convertToolsForcingFirst(options) ==
    LET tools == options.tools
    IN  IF Len(tools) = 0
        THEN [threw |-> "", tools |-> <<>>, tool_choice |-> NoToolChoice]
        ELSE [threw |-> "",
              tools |-> [i \in 1..Len(tools) |-> ToolDef(tools[i])],
              tool_choice |-> IF options.toolMode = REQUIRED
                              THEN ToolChoiceFunction(tools[1].name)
                              ELSE ToolChoiceAuto]

\* convertTools(options): the error thrown ("" if none), tools (the empty
\* list when the result has none) and tool_choice
convertTools(options) ==
    LET tools == options.tools
    IN  IF Len(tools) = 0
        THEN [threw |-> "", tools |-> <<>>, tool_choice |-> NoToolChoice]
        ELSE IF options.toolMode = REQUIRED /\ Len(tools) # 1
        THEN [threw |-> REQUIRED_ERROR, tools |-> <<>>, tool_choice |-> NoToolChoice]
        ELSE [threw |-> "",
              tools |-> [i \in 1..Len(tools) |-> ToolDef(tools[i])],
              tool_choice |-> IF options.toolMode = REQUIRED
                              THEN ToolChoiceFunction(tools[1].name)
                              ELSE ToolChoiceAuto]

----------------------------------------------------------------------------
(* prepareLanguageModelChatInformation (provider.ts): the model listing.    *)

DEFAULT_MAX_OUTPUT_TOKENS == 16000
DEFAULT_CONTEXT_LENGTH == 128000

\* a context_length the router left out, and one it gave
NoNumber == [defined |-> FALSE, value |-> 0]
Number(n) == [defined |-> TRUE, value |-> n]

\* an HFProvider: supports_tools is TRUE only when the router says true
HFProvider(provider, supports_tools, context_length) ==
    [provider |-> provider, supports_tools |-> supports_tools,
     context_length |-> context_length]

\* an HFModelItem: image tells whether architecture.input_modalities
\* includes "image"
HFModelItem(id, providers, image) == [id |-> id, providers |-> providers, image |-> image]

Max(a, b) == IF a >= b THEN a ELSE b

\* Math.min(...lengths) of a non-empty list
MinOf(lengths) ==
    CHOOSE n \in Range(lengths) : \A m \in Range(lengths) : n <= m

CHEAPEST == <<"c","h","e","a","p","e","s","t">>
FASTEST == <<"f","a","s","t","e","s","t">>
HUGGING_FACE == <<"H","u","g","g","i","n","g"," ","F","a","c","e">>
HUGGING_FACE_VIA == <<"H","u","g","g","i","n","g"," ","F","a","c","e"," ","v","i","a"," ">>
VIA == <<" ","v","i","a"," ">>

\* a LanguageModelChatInformation
ChatInformation(id, name, tooltip, maxInput, maxOutput, toolCalling, imageInput) ==
    [id |-> id, name |-> name, tooltip |-> tooltip, family |-> "huggingface",
     version |-> "1.0.0", maxInputTokens |-> maxInput, maxOutputTokens |-> maxOutput,
     capabilities |-> [toolCalling |-> toolCalling, imageInput |-> imageInput]]

\* the entries of one provider of a model, and those of the model's
\* cheapest and fastest modes
ProviderEntry(m, p, toolCalling) ==
    LET contextLen == IF p.context_length.defined THEN p.context_length.value
                      ELSE DEFAULT_CONTEXT_LENGTH
    IN  ChatInformation(IF toolCalling THEN m.id \o <<":">> \o p.provider ELSE m.id,
                        IF toolCalling THEN m.id \o VIA \o p.provider ELSE m.id,
                        IF toolCalling THEN HUGGING_FACE_VIA \o p.provider ELSE HUGGING_FACE,
                        Max(1, contextLen - DEFAULT_MAX_OUTPUT_TOKENS),
                        DEFAULT_MAX_OUTPUT_TOKENS, toolCalling, m.image)

ModeEntry(m, mode, maxInput) ==
    ChatInformation(m.id \o <<":">> \o mode,
                    m.id \o <<" ", "(">> \o mode \o <<")">>,
                    HUGGING_FACE_VIA \o <<"t","h","e"," ">> \o mode
                        \o <<" ","p","r","o","v","i","d","e","r">>,
                    maxInput, DEFAULT_MAX_OUTPUT_TOKENS, TRUE, m.image)

\* a callback of flatMap that builds no cheapest and no fastest entry
EntriesOfProvidersOnly(m) ==
    LET SupportsTools(p) == p.supports_tools
        toolProviders == SelectSeq(m.providers, SupportsTools)
    IN  [i \in 1..Len(toolProviders) |-> ProviderEntry(m, toolProviders[i], TRUE)]
        \o (IF toolProviders = <<>> /\ m.providers # <<>>
            THEN <<ProviderEntry(m, m.providers[1], FALSE)>>
            ELSE <<>>)

\* the callback of models.flatMap: the entries of one model
EntriesOf(m) ==
    LET SupportsTools(p) == p.supports_tools
        toolProviders == SelectSeq(m.providers, SupportsTools)
        Positive(p) == p.context_length.defined /\ p.context_length.value > 0
        withLength == SelectSeq(toolProviders, Positive)
        contextLengths == [i \in 1..Len(withLength) |-> withLength[i].context_length.value]
        aggregateContextLen == IF contextLengths # <<>> THEN MinOf(contextLengths)
                               ELSE DEFAULT_CONTEXT_LENGTH
        maxInput == Max(1, aggregateContextLen - DEFAULT_MAX_OUTPUT_TOKENS)
    IN  (IF toolProviders # <<>>
         THEN <<ModeEntry(m, CHEAPEST, maxInput), ModeEntry(m, FASTEST, maxInput)>>
         ELSE <<>>)
        \o [i \in 1..Len(toolProviders) |-> ProviderEntry(m, toolProviders[i], TRUE)]
        \o (IF toolProviders = <<>> /\ m.providers # <<>>
            THEN <<ProviderEntry(m, m.providers[1], FALSE)>>
            ELSE <<>>)

RECURSIVE InfosOf(_)
InfosOf(models) ==
    IF models = <<>> THEN <<>> ELSE EntriesOf(models[1]) \o InfosOf(Tail(models))

\* ensureApiKey(silent): the stored key; without one, and when not silent,
\* what the user enters in the input box (<<>> when the box is dismissed),
\* trimmed and stored if not blank; [apiKey, secrets]
ensureApiKey(stored, silent, entered) ==
    IF stored = NoApiKey /\ ~silent /\ Trim(entered) # <<>>
    THEN [apiKey |-> Trim(entered), secrets |-> Trim(entered)]
    ELSE [apiKey |-> stored, secrets |-> stored]

\* the router's answer to GET /models: an error status, or the listing
ResponseFailed == [ok |-> FALSE, data |-> <<>>]
ResponseOk(models) == [ok |-> TRUE, data |-> models]

----------------------------------------------------------------------------
(* Calls of the conversions, on inputs drawn from bounded sets.             *)

\* the sequences over S of length at most n
SeqsUpTo(S, n) == UNION { [1..k -> S] : k \in 0..n }

TOOL_A == <<"t","o","o","l","A">>
CALL_T1 == <<"t","1">>
CALL_T2 == <<"t","2">>

NO_MESSAGES == "Invalid request: no messages."
NO_MATCHING_RESULT == "Invalid request: Tool call part must be followed by a User message with a LanguageModelToolResultPart with a matching callId."

\* the callIds of the tool-call parts of a message
ToolCallIdsOf(message) ==
    { message.content[k].callId :
        k \in { j \in 1..Len(message.content) : message.content[j].kind = "toolCall" } }

\* the while loop over the messages that follow an assistant message: the
\* error it throws, "" when the call ids are covered
RECURSIVE FollowedByResults(_, _, _)
FollowedByResults(messages, toolCallIds, nextMessageIdx) ==
    IF toolCallIds = {} THEN ""
    ELSE IF nextMessageIdx > Len(messages) \/ messages[nextMessageIdx].role # USER
    THEN NO_MATCHING_RESULT
    ELSE LET content == messages[nextMessageIdx].content
         IN  IF \E k \in 1..Len(content) : ~isToolResultPart(content[k])
             THEN NO_MATCHING_RESULT
             ELSE FollowedByResults(messages,
                                    toolCallIds \ { content[k].callId : k \in 1..Len(content) },
                                    nextMessageIdx + 1)

\* a validateRequest that looks at the first following message only
validateRequestFirstFollower(messages) ==
    IF Len(messages) = 0 THEN NO_MESSAGES
    ELSE IF \E i \in 1..Len(messages) :
                /\ messages[i].role = ASSISTANT
                /\ ToolCallIdsOf(messages[i]) # {}
                /\ ~(/\ i + 1 <= Len(messages)
                     /\ messages[i + 1].role = USER
                     /\ \A k \in 1..Len(messages[i + 1].content) :
                            isToolResultPart(messages[i + 1].content[k]))
         THEN NO_MATCHING_RESULT
         ELSE ""

\* validateRequest(messages): the message of the error it throws, "" when it
\* returns
validateRequest(messages) ==
    IF Len(messages) = 0 THEN NO_MESSAGES
    ELSE IF \E i \in 1..Len(messages) :
                /\ messages[i].role = ASSISTANT
                /\ ToolCallIdsOf(messages[i]) # {}
                /\ FollowedByResults(messages, ToolCallIdsOf(messages[i]), i + 1) # ""
         THEN NO_MATCHING_RESULT
         ELSE ""

\* the parts a message of the model is made of
Parts ==
    {MsgText(<<"a">>), MsgText(<<"b">>), MsgText(<<>>),
     MsgToolCall(CALL_T1, TOOL_A, OBJ_Q1_MEMBERS),
     MsgToolCall(<<>>, SEARCH, <<>>),
     MsgToolResult(CALL_T1, <<ItemText(<<"r">>), ItemString(<<"s">>)>>),
     MsgToolResult(CALL_T2, <<ItemObject(OBJ_Q1_MEMBERS)>>),
     MsgOther}

\* the most parts of a message
MaxParts == 2

\* the most messages of a request
MaxMessages == 2

\* a conversation: text of the user, the assistant and the system, an
\* assistant turn with text and a tool call, the user's turn with its result,
\* a message without content
SampleMessages ==
    {Message(USER, <<MsgText(<<"a">>), MsgText(<<"b">>)>>),
     Message(ASSISTANT, <<MsgText(<<"b">>)>>),
     Message(SYSTEM, <<MsgText(<<"a">>)>>),
     Message(ASSISTANT, <<MsgText(<<"a">>), MsgToolCall(CALL_T1, TOOL_A, OBJ_Q1_MEMBERS)>>),
     Message(USER, <<MsgToolResult(CALL_T1, <<ItemText(<<"r">>)>>)>>),
     Message(USER, <<>>)}

\* the requests of the model: every single message of at most MaxParts parts,
\* and every conversation of at most MaxMessages sample messages
MessageLists ==
    { <<Message(role, content)>> : role \in {USER, ASSISTANT, SYSTEM},
                                   content \in SeqsUpTo(Parts, MaxParts) }
    \cup SeqsUpTo(SampleMessages, MaxMessages)

\* the turns of a tool conversation: assistant messages with one call, two
\* calls and none, user messages with one result, both results, a result
\* followed by text, text only and no content, a system message with a result
ChainMessages ==
    {Message(ASSISTANT, <<MsgText(<<"a">>), MsgToolCall(CALL_T1, TOOL_A, OBJ_Q1_MEMBERS)>>),
     Message(ASSISTANT, <<MsgToolCall(CALL_T1, TOOL_A, OBJ_Q1_MEMBERS),
                          MsgToolCall(CALL_T2, SEARCH, <<>>)>>),
     Message(ASSISTANT, <<MsgText(<<"b">>)>>),
     Message(USER, <<MsgToolResult(CALL_T1, <<ItemText(<<"r">>)>>)>>),
     Message(USER, <<MsgToolResult(CALL_T2, <<ItemText(<<"r">>)>>)>>),
     Message(USER, <<MsgToolResult(CALL_T1, <<ItemText(<<"r">>)>>), MsgText(<<"a">>)>>),
     Message(USER, <<MsgText(<<"a">>)>>),
     Message(USER, <<>>),
     Message(SYSTEM, <<MsgToolResult(CALL_T1, <<ItemText(<<"r">>)>>)>>)}

\* the most messages of a tool conversation
MaxChain == 3

InitCalls ==
    /\ Constructed
    /\ unread = <<>>
    /\ profile = "calls"
    /\ secrets \in {NoApiKey, API_KEY}

sessionVars ==
    <<toolCallBuffers, completedToolCallIndices, hasEmittedAssistantText,
      emittedBeginToolCallsHint, textToolParserBuffer, textToolActive,
      emittedTextToolCallKeys, emittedTextToolCallIds, reported, consoleErrors,
      buffer, decoderPending, isCancellationRequested, pc, outcome, received,
      unread, profile>>

\* convertMessages(messages) is called, on a provider that has served no call
CallConvertMessages ==
    /\ lastCall = NoCall
    /\ \E messages \in MessageLists :
           lastCall' = [fn |-> "convertMessages", args |-> messages, threw |-> FALSE,
                        value |-> convertMessages(messages)]
    /\ UNCHANGED <<secrets, chatEndpoints>>
    /\ UNCHANGED sessionVars

\* the tools a request may offer
Tools ==
    {Tool(TOOL_A, <<"A">>, Schema(OBJ_Q1_MEMBERS)),
     Tool(SEARCH, undefined, Schema(<<>>)),
     Tool(LOOKUP, <<"L">>, NoSchema)}

\* the most tools of a request
MaxTools == 3

\* convertTools(options) is called, on a provider that has served no call
CallConvertTools ==
    /\ lastCall = NoCall
    /\ \E tools \in SeqsUpTo(Tools, MaxTools), toolMode \in {AUTO, REQUIRED} :
           LET Returned(options, r) ==
                   lastCall' = [fn |-> "convertTools", args |-> options,
                                threw |-> r.threw # "", value |-> r]
           IN  Returned([tools |-> tools, toolMode |-> toolMode],
                        convertTools([tools |-> tools, toolMode |-> toolMode]))
    /\ UNCHANGED <<secrets, chatEndpoints>>
    /\ UNCHANGED sessionVars

GROQ == <<"g","r","o","q">>
TOGETHER == <<"t","o","g","e","t","h","e","r">>
NEBIUS == <<"n","e","b","i","u","s">>
MODEL_1 == <<"m","1">>
MODEL_2 == <<"m","2">>
MODEL_3 == <<"m","3">>

\* providers with tool calling, with and without a context length, and one
\* without tool calling whose context is shorter than the output
Providers ==
    {HFProvider(GROQ, TRUE, Number(32000)),
     HFProvider(TOGETHER, TRUE, NoNumber),
     HFProvider(NEBIUS, FALSE, Number(8000))}

\* the most providers of a model
MaxProviders == 2

\* the most models of a listing
MaxModels == 2

\* a model with tool calling, one without, one without providers
SampleModels ==
    {HFModelItem(MODEL_1, <<HFProvider(GROQ, TRUE, Number(32000))>>, FALSE),
     HFModelItem(MODEL_2, <<HFProvider(NEBIUS, FALSE, Number(8000))>>, TRUE),
     HFModelItem(MODEL_3, <<>>, FALSE)}

\* the router's answers: an error, every listing of one model of at most
\* MaxProviders providers, every listing of at most MaxModels sample models
Responses ==
    {ResponseFailed}
    \cup { ResponseOk(<<HFModelItem(MODEL_1, providers, image)>>) :
               providers \in SeqsUpTo(Providers, MaxProviders), image \in BOOLEAN }
    \cup { ResponseOk(models) : models \in SeqsUpTo(SampleModels, MaxModels) }

\* what the user types into the input box: nothing, blanks, a key
Entered == {<<>>, <<" ">>, <<" ">> \o API_KEY \o <<" ">>}

\* prepareLanguageModelChatInformation(options) is called, on a provider that
\* has served no call: without a key it returns no entry; the listing it
\* fetches may fail, and the call throws; else the entries are built and the
\* endpoints recorded
PrepareLanguageModelChatInformation ==
    /\ lastCall = NoCall
    /\ \E silent \in BOOLEAN, entered \in Entered, response \in Responses :
           LET Called(fetched, threw, infos) ==
                   lastCall' = [fn |-> "prepareLanguageModelChatInformation",
                                args |-> [silent |-> silent, entered |-> entered,
                                          response |-> response],
                                fetched |-> fetched, threw |-> threw, value |-> infos]
               Listed(infos) ==
                   /\ Called(TRUE, FALSE, infos)
                   /\ chatEndpoints' =
                          [i \in 1..Len(infos) |->
                              [model |-> infos[i].id,
                               modelMaxPromptTokens |->
                                   infos[i].maxInputTokens + infos[i].maxOutputTokens]]
               WithKey(key) ==
                   /\ secrets' = key.secrets
                   /\ IF key.apiKey = NoApiKey
                      THEN Called(FALSE, FALSE, <<>>) /\ UNCHANGED chatEndpoints
                      ELSE IF ~response.ok
                      THEN Called(TRUE, TRUE, <<>>) /\ UNCHANGED chatEndpoints
                      ELSE Listed(InfosOf(response.data))
           IN  WithKey(ensureApiKey(secrets, silent, entered))
    /\ UNCHANGED sessionVars

\* validateRequest(messages) is called, on a provider that has served no call
CallValidateRequest ==
    /\ lastCall = NoCall
    /\ \E messages \in MessageLists \cup SeqsUpTo(ChainMessages, MaxChain) :
           lastCall' = [fn |-> "validateRequest", args |-> messages,
                        threw |-> validateRequest(messages) # "",
                        value |-> validateRequest(messages)]
    /\ UNCHANGED <<secrets, chatEndpoints>>
    /\ UNCHANGED sessionVars

NextCalls ==
    \/ CallConvertMessages
    \/ CallConvertTools
    \/ PrepareLanguageModelChatInformation
    \/ CallValidateRequest

SpecCalls == InitCalls /\ [][NextCalls]_vars

----------------------------------------------------------------------------
(* Properties.                                                              *)

IsToolCall(part) == part.type = "ToolCall"
IsText(part) == part.type = "Text"

\* the parts reported by the step
NewParts == SubSeq(reported', Len(reported) + 1, Len(reported'))

\* the step is the read of one chunk that holds exactly `line`
ReadsLine(line) == pc = "reading" /\ received' = received \o EncodeLine(line)

RECURSIVE EncodeLines(_)
EncodeLines(lines) ==
    IF lines = <<>> THEN <<>> ELSE EncodeLine(lines[1]) \o EncodeLines(Tail(lines))

\* the lines read so far are exactly `lines`
HasRead(lines) == received = EncodeLines(lines)

Unparseable(buf) == ~tryParseJSONObject(buf.args).ok

\* the object {"q":"x"} and the object {"q":1}, as JSON.parse yields them
OBJ_QX == tryParseJSONObject(ARGS_FULL).value
OBJ_Q1 == tryParseJSONObject(ARGS_Q1).value

\* C1: when a frame with finish_reason "tool_calls" or "stop" is processed
\* while a buffered structured call's arguments do not parse as a JSON object,
\* the session raises "Invalid JSON for tool call" to its caller and processes
\* no further frame: once the strict flush has hit such a call, the session
\* has returned by throwing.
C1_StrictFlushRaises ==
    INVALID_JSON \in consoleErrors => pc = "returned" /\ outcome = "threw"

\* C2: when [DONE] is processed while a buffered structured call's arguments
\* do not parse as a JSON object, no error is raised or logged, no ToolCall is
\* reported for that call, and the session reads on (it leaves the loop only
\* if cancellation was requested), to complete normally at the end of the
\* stream.
C2_DoneDropsSilently ==
    [][ (/\ ReadsLine(DoneLine)
         /\ \E k \in 1..Len(toolCallBuffers) : Unparseable(toolCallBuffers[k]))
        => /\ consoleErrors' = consoleErrors
           /\ outcome' # "threw"
           /\ pc' = "reading" \/ outcome' = "cancelled"
           /\ \A k \in 1..Len(toolCallBuffers) :
                  Unparseable(toolCallBuffers[k]) =>
                      \A i \in 1..Len(NewParts) :
                          ~(/\ IsToolCall(NewParts[i])
                            /\ NewParts[i].via = "structured"
                            /\ NewParts[i].index = toolCallBuffers[k].index) ]_vars

\* a session that met [DONE] with the arguments of call 0 still incomplete and
\* then completed, nothing reported and nothing logged
C2_Witness ==
    /\ HasRead(<<FrameLine(<<>>, "open0"), DoneLine>>)
    /\ pc = "returned"
    /\ outcome = "completed"
    /\ reported = <<>>
    /\ consoleErrors = {}

\* C7: a structured call is reported while the frame is processed after which
\* its index has a name and its accumulated arguments parse as a JSON object,
\* never deferred to a finish frame, [DONE] or the end of the stream: between
\* frames no buffered call has a name and arguments that parse.
C7_ReadyCallNotDeferred ==
    \A k \in 1..Len(toolCallBuffers) :
        ~(toolCallBuffers[k].name # <<>> /\ ~Unparseable(toolCallBuffers[k]))

\* the call of index 0 is reported on the frame that completes its arguments,
\* before any finish frame or [DONE]
C7_Witness ==
    /\ HasRead(<<FrameLine(<<>>, "open0"), FrameLine(<<>>, "close0")>>)
    /\ pc = "reading"
    /\ reported = <<ToolCallPart(C1ID, LOOKUP, OBJ_QX, "structured", 0)>>
    /\ toolCallBuffers = <<>>

\* C10: whenever the streaming loop has returned to its caller (completion,
\* error or cancellation), all per-session state is cleared: the buffers, the
\* completed indices, the two flags, the residual text, the active inline call
\* and both dedup ledgers.
C10_StateClearedOnReturn ==
    pc = "returned" =>
        /\ toolCallBuffers = <<>>
        /\ completedToolCallIndices = {}
        /\ hasEmittedAssistantText = FALSE
        /\ emittedBeginToolCallsHint = FALSE
        /\ textToolParserBuffer = <<>>
        /\ textToolActive = NoTextTool
        /\ emittedTextToolCallKeys = {}
        /\ emittedTextToolCallIds = {}

\* C3: for a stream of well-formed data: frames carrying structured tool-call
\* deltas, the sequence of events reported is the same for every way of
\* cutting the stream into contiguous transport chunks (inside a frame, a
\* line terminator, a character or an inline sentinel) and equals the
\* sequence reported when the whole stream arrives as one chunk: at every
\* point of a chunked session the parts reported are those of a session that
\* received the same bytes as one chunk.
C3_ChunkingInvariance ==
    pc \in {"reading", "returned"} => reported = OneChunk(received).t.reported

\* a chunk boundary inside an inline sentinel of a later frame, with a
\* structured call and visible text already reported
C3_Witness ==
    /\ pc = "reading"
    /\ EndsWith(buffer, <<"<","|","t","o","o","l","_">>)
    /\ \E i \in 1..Len(reported) : IsToolCall(reported[i])
    /\ \E i \in 1..Len(reported) : IsText(reported[i])

\* a Text event holds "<|" or "|>", the two ends of every sentinel
HoldsSentinelEnd(part) ==
    IsText(part) /\ (Contains(part.value, <<"<", "|">>) \/ Contains(part.value, <<"|", ">">>))

\* C4: an inline call (begin marker, name:index header, arguments-begin
\* marker, JSON body, end marker) delivered over several content deltas cut at
\* arbitrary offsets, also inside a sentinel, yields exactly one ToolCall with
\* the call's name and parsed arguments, and no Text event that holds a
\* fragment of a sentinel.
C4_SplitInlineCallReportedOnce ==
    (pc = "returned" /\ outcome = "completed") =>
        /\ Cardinality({ i \in 1..Len(reported) : IsToolCall(reported[i]) }) = 1
        /\ \A i \in 1..Len(reported) :
               /\ IsToolCall(reported[i]) =>
                      reported[i].name = SEARCH /\ reported[i].input = OBJ_Q1
               /\ ~HoldsSentinelEnd(reported[i])

\* a sentinel or a section marker occurs in the text
HasSentinel(text) ==
    \/ Contains(text, BEGIN)
    \/ Contains(text, ARG_BEGIN)
    \/ Contains(text, END)
    \/ \E i \in 1..Len(text) : SectionMarkerAt(text, i) > 0

\* C5: every Text event reported in a session is free of all sentinel
\* substrings (call-begin, arguments-begin, call-end and every
\* <name>_section_begin / _end marker).
C5_TextFreeOfSentinels ==
    \A i \in 1..Len(reported) : IsText(reported[i]) => ~HasSentinel(reported[i].value)

\* C6: no two ToolCall events of a session share the same (name, index)
\* identity, and no two share the same (name, canonical JSON of arguments)
\* key, whichever path reported them.
C6_NoDuplicateToolCalls ==
    \A i, j \in 1..Len(reported) :
        (i < j /\ IsToolCall(reported[i]) /\ IsToolCall(reported[j])
               /\ reported[i].name = reported[j].name) =>
            /\ ~(reported[i].index # NoIndex /\ reported[i].index = reported[j].index)
            /\ JSONStringify(reported[i].input) # JSONStringify(reported[j].input)

\* the active inline call's argument buffer parses as a JSON object
ActiveParses(a) == a.active /\ tryParseJSONObject(a.argBuffer).ok

ActiveName(a) == IF a.name = <<>> THEN UNKNOWN_TOOL ELSE a.name

\* the object the active call's argument buffer parses to
ActiveInput(a) == tryParseJSONObject(a.argBuffer).value

\* `part` is the inline ToolCall of the call `a` with its present arguments
ReportOf(a, part) ==
    /\ IsToolCall(part)
    /\ part.via = "inline"
    /\ part.name = ActiveName(a)
    /\ part.index = a.index
    /\ part.input = ActiveInput(a)

\* an earlier report of the session holds the call's (name, index) identity
\* or, for a call without index, its (name, canonical JSON) key
HeldByLedger(a) ==
    IF a.index # NoIndex
    THEN /\ <<ActiveName(a), a.index>> \in emittedTextToolCallIds
         /\ \E i \in 1..Len(reported) :
                /\ IsToolCall(reported[i])
                /\ reported[i].name = ActiveName(a)
                /\ reported[i].index = a.index
    ELSE /\ ActiveName(a) \o <<":">> \o JSONStringify(ActiveInput(a)) \in emittedTextToolCallKeys
         /\ \E i \in 1..Len(reported) :
                /\ IsToolCall(reported[i])
                /\ reported[i].name = ActiveName(a)
                /\ reported[i].input = ActiveInput(a)

\* the step reports no inline ToolCall that repeats, with the same name,
\* index and arguments, one already reported for the active, emitted call
NoSecondReport ==
    (textToolActive.active /\ textToolActive.emitted) =>
        \A n \in 1..Len(NewParts) : \A o \in 1..Len(reported) :
            ~(/\ IsToolCall(NewParts[n]) /\ NewParts[n].via = "inline"
              /\ IsToolCall(reported[o]) /\ reported[o].via = "inline"
              /\ NewParts[n].name = ActiveName(textToolActive)
              /\ NewParts[n].index = textToolActive.index
              /\ reported[o].name = NewParts[n].name
              /\ reported[o].index = NewParts[n].index
              /\ reported[o].input = NewParts[n].input)

RECURSIVE DeltasOf(_)
DeltasOf(lines) ==
    IF lines = <<>> THEN <<>>
    ELSE LET parsed == ParseFrame(SliceFrom(lines[1], 6))
         IN  IF StartsWith(lines[1], DATA_PREFIX) /\ parsed.ok /\ parsed.delta.hasChoice
             THEN <<parsed.delta>> \o DeltasOf(Tail(lines))
             ELSE DeltasOf(Tail(lines))

\* the deltas of the frames received so far
FramesRead ==
    LET segs == SplitLines(received)
    IN  DeltasOf(SubSeq(segs, 1, Len(segs) - 1))

\* the frames up to the first one with finish_reason "tool_calls", <<>> if
\* there is none
UpToFinish(frames) ==
    LET at == { n \in 1..Len(frames) : frames[n].finish = "tool_calls" }
    IN  IF at = {} THEN <<>>
        ELSE SubSeq(frames, 1, CHOOSE n \in at : \A m \in at : n <= m)

\* the fragments of stream index idx in the frames `frames`, in arrival order
RECURSIVE FragsOf(_, _)
FragsOf(frames, idx) ==
    IF frames = <<>> THEN <<>>
    ELSE LET Mine(tc) == (IF tc.index = NoIndex THEN 0 ELSE tc.index) = idx
         IN  SelectSeq(frames[1].tool_calls, Mine) \o FragsOf(Tail(frames), idx)

\* the argument fragments joined in order, no separator
RECURSIVE ConcatArgs(_)
ConcatArgs(frags) ==
    IF frags = <<>> THEN <<>> ELSE frags[1].arguments \o ConcatArgs(Tail(frags))

\* the last non-empty value of field `f` ("id" or "name") among frags, <<>> if none
LastSupplied(frags, f) ==
    LET at == { k \in 1..Len(frags) : frags[k][f] # <<>> }
    IN  IF at = {} THEN <<>> ELSE frags[CHOOSE k \in at : \A m \in at : m <= k][f]

\* the number of fragments after which the call first has a name and
\* arguments that parse, 0 if it never has
ReadyAfter(frags) ==
    LET at == { n \in 1..Len(frags) :
                  /\ LastSupplied(SubSeq(frags, 1, n), "name") # <<>>
                  /\ tryParseJSONObject(ConcatArgs(SubSeq(frags, 1, n))).ok }
    IN  IF at = {} THEN 0 ELSE CHOOSE n \in at : \A m \in at : n <= m

StreamIndices == {0, 1}

\* the structured ToolCalls reported for stream index idx
StructuredReports(idx) ==
    { i \in 1..Len(reported) :
        IsToolCall(reported[i]) /\ reported[i].via = "structured" /\ reported[i].index = idx }

C11_CancellationStopsPromptly ==
    [][ /\ (isCancellationRequested /\ pc \in {"fetching", "reading"}) => pc' = "returned"
        /\ (outcome' = "cancelled" /\ outcome # "cancelled") =>
               LET value == SubSeq(received', Len(received) + 1, Len(received'))
                   Same(r) == /\ reported' = r.t.reported
                              /\ consoleErrors' = r.t.consoleErrors
                              /\ r.thrown = ""
               IN  /\ pc' = "returned"
                   /\ isCancellationRequested
                   /\ IF pc = "reading"
                      THEN Same(ProcessChunk(This, buffer, decoderPending, value))
                      ELSE reported' = reported /\ consoleErrors' = consoleErrors ]_vars

\* a session cancelled while the call of index 0 had arguments that parse but
\* no name yet: a finalization would have reported it, the exit reports nothing
C11_Witness ==
    /\ HasRead(<<FrameLine(<<>>, "noname0")>>)
    /\ pc = "returned"
    /\ outcome = "cancelled"
    /\ reported = <<>>
    /\ consoleErrors = {}

\* the events each of `lines` causes when the lines are processed one after
\* the other from the state t, joined in the order of the lines
RECURSIVE EventsInLineOrder(_, _)
EventsInLineOrder(t, lines) ==
    IF lines = <<>> THEN <<>>
    ELSE LET Caused(r) == SubSeq(r.t.reported, Len(t.reported) + 1, Len(r.t.reported))
                          \o EventsInLineOrder(r.t, Tail(lines))
         IN  Caused(ProcessLine(t, lines[1]))

\* the complete lines among the bytes received so far
LinesReceived ==
    LET segs == SplitLines(Utf8Decode(received).text)
    IN  SubSeq(segs, 1, Len(segs) - 1)

\* C12: events are reported in the order of the frames that caused them:
\* frames are processed in arrival order, whatever the chunks they arrive in,
\* and every Text or ToolCall event a frame produces is reported before any
\* event of a later frame; what was reported stays reported, in place.
C12_EventsInFrameOrder ==
    /\ [](pc \in {"reading", "returned"} =>
             reported = EventsInLineOrder(ResetForRequest(Fresh), LinesReceived))
    /\ [][SubSeq(reported', 1, Len(reported)) = reported]_vars

\* text, the hint and a structured call from the first frame, an inline call
\* from the second, a structured call from the third
C12_Witness ==
    /\ received = BODY_MIXED
    /\ pc = "reading"
    /\ reported = <<TextPart(CAFE), TextPart(<<" ">>),
                    ToolCallPart(C2ID, LOOKUP, OBJ_QX, "structured", 1),
                    ToolCallPart(SynthTextCallId, PING, <<>>, "inline", NoIndex),
                    ToolCallPart(C3ID, SEARCH, OBJ_Q1, "structured", 0)>>

\* the line is not the malformed data: line of the model
NotMalformed(line) == line # DATA_PREFIX \o <<"{">>

\* C13: a data: frame whose payload is not valid JSON (and is not [DONE])
\* reports no event, raises no error to the caller and leaves every piece of
\* decoder state (buffers, completed set, flags, ledgers, inline state,
\* residual text) unchanged; the frames after it are processed normally, so
\* the events of a session are those of the same stream without its malformed
\* frames.
C13_MalformedFrameIgnored ==
    /\ [][ ReadsLine(MalformedLine) =>
               /\ reported' = reported
               /\ consoleErrors' = consoleErrors
               /\ outcome' # "threw"
               /\ IF isCancellationRequested
                  THEN outcome' = "cancelled"
                  ELSE /\ pc' = "reading"
                       /\ UNCHANGED <<toolCallBuffers, completedToolCallIndices,
                                      hasEmittedAssistantText, emittedBeginToolCallsHint,
                                      textToolParserBuffer, textToolActive,
                                      emittedTextToolCallKeys, emittedTextToolCallIds,
                                      buffer, outcome>> ]_vars
    /\ [](pc \in {"reading", "returned"} =>
             reported = EventsInLineOrder(ResetForRequest(Fresh),
                                          SelectSeq(LinesReceived, NotMalformed)))

\* a malformed frame between a text frame and a frame with a structured call:
\* the text before it and the call after it are reported, nothing else
C13_Witness ==
    /\ HasRead(<<FrameLine(HI, "-"), MalformedLine, FrameLine(<<>>, "full1")>>)
    /\ pc = "reading"
    /\ reported = <<TextPart(HI), TextPart(<<" ">>),
                    ToolCallPart(C2ID, LOOKUP, OBJ_QX, "structured", 1)>>

\* the stream received is frames that carry only content, without a sentinel,
\* followed by [DONE]
PlainTextThenDone ==
    LET ls == LinesReceived
        n == Len(ls)
        Plain(line) ==
            LET parsed == ParseFrame(SliceFrom(line, 6))
            IN  /\ StartsWith(line, DATA_PREFIX)
                /\ parsed.ok
                /\ parsed.delta.hasChoice
                /\ parsed.delta.tool_calls = <<>>
                /\ parsed.delta.finish = "none"
                /\ ~HasSentinel(parsed.delta.content)
    IN  /\ n >= 2
        /\ ls[n] = DATA_PREFIX \o DONE
        /\ \A i \in 1..(n - 1) : Plain(ls[i])

\* one Text event per non-empty content delta, with the delta's string
RECURSIVE TextPerDelta(_)
TextPerDelta(deltas) ==
    IF deltas = <<>> THEN <<>>
    ELSE (IF deltas[1].content = <<>> THEN <<>> ELSE <<TextPart(deltas[1].content)>>)
         \o TextPerDelta(Tail(deltas))

\* C14: for a stream of frames whose content deltas hold no sentinel token,
\* followed by [DONE], the session reports exactly one Text event per
\* non-empty content delta, carrying that delta's string unchanged, in frame
\* order, and no other event, and ends without error.
C14_PlainTextVerbatim ==
    PlainTextThenDone =>
        /\ reported = TextPerDelta(FramesRead)
        /\ outcome # "threw"
        /\ consoleErrors = {}

\* C20: within one tool-call buffer the id and the name are each set by the
\* first fragment that supplies a non-empty value and are never overwritten
\* by a later fragment for the same index, and the ToolCall reported for the
\* buffer carries those first values.
C20_FirstIdAndNameWin ==
    [][ \A k \in 1..Len(toolCallBuffers) :
            LET old == toolCallBuffers[k]
            IN  /\ \A j \in 1..Len(toolCallBuffers') :
                       toolCallBuffers'[j].index = old.index =>
                           /\ old.id # <<>> => toolCallBuffers'[j].id = old.id
                           /\ old.name # <<>> => toolCallBuffers'[j].name = old.name
                /\ \A n \in 1..Len(NewParts) :
                       (/\ IsToolCall(NewParts[n])
                        /\ NewParts[n].via = "structured"
                        /\ NewParts[n].index = old.index) =>
                           /\ old.id # <<>> => NewParts[n].callId = old.id
                           /\ old.name # <<>> => NewParts[n].name = old.name ]_vars

\* C15: provideLanguageModelChatResponse fails with an error when no API key
\* is stored: the call throws to its caller before any request is sent
\* (the session never awaits a response and never reads a byte) and no event
\* is reported to the progress callback.
C15_NoApiKeyThrows ==
    /\ [](secrets = NoApiKey =>
             /\ pc \in {"idle", "returned"}
             /\ pc = "returned" => outcome = "threw"
             /\ reported = <<>>
             /\ received = <<>>)
    /\ [][(secrets = NoApiKey /\ pc = "idle" /\ pc' # pc) =>
              (pc' = "returned" /\ outcome' = "threw")]_vars

\* the call made without a stored key has thrown, nothing reported
C15_Witness ==
    /\ secrets = NoApiKey
    /\ pc = "returned"
    /\ outcome = "threw"
    /\ reported = <<>>

\* every part of every message is a text part
OnlyTextParts(messages) ==
    \A i \in 1..Len(messages) : \A k \in 1..Len(messages[i].content) :
        messages[i].content[k].kind = "text"

\* one message per input message with non-empty text: the role user or
\* assistant (system for any other role), the concatenated text, nothing else
RECURSIVE TextMessages(_)
TextMessages(messages) ==
    IF messages = <<>> THEN <<>>
    ELSE LET m == messages[1]
             role == IF m.role = USER THEN "user"
                     ELSE IF m.role = ASSISTANT THEN "assistant" ELSE "system"
             text == TextOf(m.content)
         IN  (IF text = <<>> THEN <<>>
              ELSE <<[role |-> role, content |-> text, tool_calls |-> <<>>,
                      tool_call_id |-> undefined]>>)
             \o TextMessages(Tail(messages))

\* C16: convertMessages maps a list of messages that contain only text parts
\* to exactly one output message per input message with non-empty text, in the
\* same order, whose role is user or assistant according to the input role
\* (system for any other role) and whose content is the concatenation of that
\* message's text parts, with no other field.
C16_TextMessagesMapped ==
    (lastCall.fn = "convertMessages" /\ OnlyTextParts(lastCall.args)) =>
        /\ ~lastCall.threw
        /\ lastCall.value = TextMessages(lastCall.args)

\* a user message of two text parts and an assistant message, in this order
C16_Witness ==
    /\ lastCall.fn = "convertMessages"
    /\ lastCall.args = <<Message(USER, <<MsgText(<<"a">>), MsgText(<<"b">>)>>),
                         Message(ASSISTANT, <<MsgText(<<"b">>)>>)>>
    /\ lastCall.value = <<ChatMessage("user", <<"a", "b">>, <<>>, undefined),
                          ChatMessage("assistant", <<"b">>, <<>>, undefined)>>

\* the tool-call parts and the tool-result parts of a message, in order
CallPartsOf(m) == LET IsCall(part) == part.kind = "toolCall" IN SelectSeq(m.content, IsCall)
ResultPartsOf(m) == LET IsResult(part) == part.kind = "toolResult" IN SelectSeq(m.content, IsResult)

\* what each message yields when converted alone, joined in message order
RECURSIVE PerMessage(_)
PerMessage(messages) ==
    IF messages = <<>> THEN <<>>
    ELSE convertMessages(<<messages[1]>>) \o PerMessage(Tail(messages))

\* `out` is what the claim says of the message m: when m has tool-call parts,
\* one assistant message first, with one tool_calls entry per part (the id
\* IdOf gives for the part, the part's name, in order), and no tool_calls
\* otherwise; then one tool message per tool-result part, with the part's
\* callId, in order; and for an assistant message with tool calls nothing more
CallsThenResults(m, out, IdOf(_)) ==
    LET calls == CallPartsOf(m)
        results == ResultPartsOf(m)
        first == IF calls = <<>> THEN 0 ELSE 1
    IN  /\ calls # <<>> =>
               /\ Len(out) >= 1
               /\ out[1].role = "assistant"
               /\ Len(out[1].tool_calls) = Len(calls)
               /\ \A i \in 1..Len(calls) :
                      /\ out[1].tool_calls[i].id = IdOf(calls[i])
                      /\ out[1].tool_calls[i].function.name = calls[i].name
        /\ \A j \in 1..Len(out) : out[j].tool_calls # <<>> => (j = 1 /\ calls # <<>>)
        /\ { j \in 1..Len(out) : out[j].role = "tool" } = (first + 1)..(first + Len(results))
        /\ \A i \in 1..Len(results) :
               first + i <= Len(out) => out[first + i].tool_call_id = results[i].callId
        /\ (m.role = ASSISTANT /\ calls # <<>>) => Len(out) = 1 + Len(results)

SameCallId(part) == part.callId
SameOrGeneratedCallId(part) == IF part.callId = <<>> THEN SynthMessageCallId ELSE part.callId

\* C17 (as stated): for every input message, convertMessages emits one
\* assistant message with a tool_calls list of one entry per tool-call part
\* (same call id and name, in order) when the message has tool-call parts, and
\* one tool message per tool-result part with the part's callId as
\* tool_call_id; the assistant tool_calls message precedes the tool messages,
\* and the text of an assistant message that carried tool calls is not
\* emitted again.
C17_ToolCallsAndResults ==
    lastCall.fn = "convertMessages" =>
        /\ lastCall.value = PerMessage(lastCall.args)
        /\ \A i \in 1..Len(lastCall.args) :
               CallsThenResults(lastCall.args[i], convertMessages(<<lastCall.args[i]>>),
                                SameCallId)

\* C17 (amended): as stated, except that the entry of a tool-call part whose
\* call id is empty carries a generated id.
C17_ToolCallsAndResultsIdGenerated ==
    lastCall.fn = "convertMessages" =>
        /\ lastCall.value = PerMessage(lastCall.args)
        /\ \A i \in 1..Len(lastCall.args) :
               CallsThenResults(lastCall.args[i], convertMessages(<<lastCall.args[i]>>),
                                SameOrGeneratedCallId)

\* an assistant turn with text and a tool call, then the user's turn with the
\* result: the assistant message with the call, then the tool message
C17_Witness ==
    /\ lastCall.fn = "convertMessages"
    /\ lastCall.args =
           <<Message(ASSISTANT, <<MsgText(<<"a">>), MsgToolCall(CALL_T1, TOOL_A, OBJ_Q1_MEMBERS)>>),
             Message(USER, <<MsgToolResult(CALL_T1, <<ItemText(<<"r">>)>>)>>)>>
    /\ lastCall.value =
           <<ChatMessage("assistant", <<"a">>,
                         <<[id |-> CALL_T1, type |-> "function",
                            function |-> [name |-> TOOL_A, arguments |-> ARGS_Q1]]>>,
                         undefined),
             ChatMessage("tool", <<"r">>, <<>>, CALL_T1)>>

\* C18: convertTools returns no tools and no tool_choice for an empty tool
\* list; for a non-empty list it returns one function definition per input
\* tool, in order and with the same name, with tool_choice "auto", except in
\* Required tool mode, where exactly one tool yields a tool_choice forcing
\* that tool and any other non-zero number of tools throws.
C18_ToolsConverted ==
    lastCall.fn = "convertTools" =>
        LET tools == lastCall.args.tools
            required == lastCall.args.toolMode = REQUIRED
            r == lastCall.value
        IN  /\ Len(tools) = 0 =>
                   ~lastCall.threw /\ r.tools = <<>> /\ r.tool_choice = NoToolChoice
            /\ lastCall.threw <=> (required /\ Len(tools) > 1)
            /\ (Len(tools) > 0 /\ ~lastCall.threw) =>
                   /\ Len(r.tools) = Len(tools)
                   /\ \A i \in 1..Len(tools) :
                          /\ r.tools[i].type = "function"
                          /\ r.tools[i].function.name = tools[i].name
                   /\ r.tool_choice = IF required THEN ToolChoiceFunction(tools[1].name)
                                      ELSE ToolChoiceAuto

\* Required mode with two tools: the call has thrown
C18_Witness ==
    /\ lastCall.fn = "convertTools"
    /\ lastCall.args.toolMode = REQUIRED
    /\ Len(lastCall.args.tools) = 2
    /\ lastCall.threw
    /\ lastCall.value.threw = REQUIRED_ERROR

\* the listing the call obtained from the router, <<>> if it obtained none
ModelsListed ==
    IF /\ lastCall.fn = "prepareLanguageModelChatInformation"
       /\ lastCall.fetched
       /\ ~lastCall.threw
    THEN lastCall.args.response.data
    ELSE <<>>

\* the entries returned hold one with this id
HasEntry(id) == \E i \in 1..Len(lastCall.value) : lastCall.value[i].id = id

HasToolProvider(m) == \E k \in 1..Len(m.providers) : m.providers[k].supports_tools

IndexOfFragment(tc) == IF tc.index = NoIndex THEN 0 ELSE tc.index

\* the stream indices for which a structured ToolCall has been reported
ReportedIndices ==
    { reported[i].index :
        i \in { j \in 1..Len(reported) :
                  IsToolCall(reported[j]) /\ reported[j].via = "structured" } }

\* the line is a frame that carries nothing but fragments for stream indices
\* whose ToolCall has been reported
OnlyLateFragments(line) ==
    /\ line.kind = "frame"
    /\ line.content = <<>>
    /\ Rest(line.rest).finish = "none"
    /\ Rest(line.rest).tool_calls # <<>>
    /\ \A k \in 1..Len(Rest(line.rest).tool_calls) :
           IndexOfFragment(Rest(line.rest).tool_calls[k]) \in ReportedIndices

\* C21: after the ToolCall for a stream index has been reported, every later
\* fragment for that index in the same session is ignored: no step creates a
\* buffer entry for the index or reports a further ToolCall for it, and a
\* frame that carries only such fragments changes neither the buffers nor
\* the completed set nor the ledgers and reports no ToolCall.
C21_CompletedIndexIgnored ==
    [][ /\ \A idx \in ReportedIndices :
               /\ ~HasBuffer(toolCallBuffers', idx)
               /\ \A n \in 1..Len(NewParts) :
                      ~(/\ IsToolCall(NewParts[n])
                        /\ NewParts[n].via = "structured"
                        /\ NewParts[n].index = idx)
        /\ \A line \in Lines(profile) :
               (ReadsLine(line) /\ OnlyLateFragments(line) /\ pc' = "reading") =>
                   /\ UNCHANGED <<toolCallBuffers, completedToolCallIndices,
                                  emittedTextToolCallKeys, emittedTextToolCallIds>>
                   /\ \A n \in 1..Len(NewParts) : ~IsToolCall(NewParts[n]) ]_vars

\* the call of index 0 was reported on its second fragment; a third fragment
\* for index 0, with another id, another name and more arguments, was read
\* and left nothing behind
C21_Witness ==
    /\ HasRead(<<FrameLine(<<>>, "open0"), FrameLine(<<>>, "close0"),
                 FrameLine(<<>>, "reid0")>>)
    /\ pc = "reading"
    /\ reported = <<ToolCallPart(C1ID, LOOKUP, OBJ_QX, "structured", 0)>>
    /\ toolCallBuffers = <<>>
    /\ completedToolCallIndices = {0}

\* the buffer entry of stream index idx, an empty one if there is none
BufferOf(buffers, idx) ==
    IF HasBuffer(buffers, idx) THEN GetBuffer(buffers, idx)
    ELSE [index |-> idx, id |-> <<>>, name |-> <<>>, args |-> <<>>]

\* C22: after a fragment is merged into the buffer of an index, a ToolCall is
\* reported for that index if and only if a name is known and the accumulated
\* argument string parses as a JSON object (not an array, a scalar or null),
\* and then with the parsed object; otherwise nothing is reported for the
\* index, no error is raised or logged, and the buffer entry is kept with the
\* accumulated arguments.
C22_EmissionOnlyWhenReady ==
    [][ \A line \in Lines(profile) :
            (/\ ReadsLine(line)
             /\ line.kind = "frame"
             /\ Len(Rest(line.rest).tool_calls) = 1
             /\ Rest(line.rest).finish = "none"
             /\ IndexOfFragment(Rest(line.rest).tool_calls[1]) \notin ReportedIndices) =>
                LET tc == Rest(line.rest).tool_calls[1]
                    idx == IndexOfFragment(tc)
                    old == BufferOf(toolCallBuffers, idx)
                    args == old.args \o tc.arguments
                    parsed == JSONParse(args)
                    ForIndex(part) ==
                        IsToolCall(part) /\ part.via = "structured" /\ part.index = idx
                IN  IF /\ tc.name # <<>> \/ old.name # <<>>
                       /\ parsed.ok
                       /\ parsed.kind = "object"
                    THEN /\ Len(SelectSeq(NewParts, ForIndex)) = 1
                         /\ SelectSeq(NewParts, ForIndex)[1].input = parsed.members
                    ELSE /\ SelectSeq(NewParts, ForIndex) = <<>>
                         /\ outcome' # "threw"
                         /\ consoleErrors' = consoleErrors
                         /\ pc' = "reading" =>
                                /\ HasBuffer(toolCallBuffers', idx)
                                /\ GetBuffer(toolCallBuffers', idx).args = args ]_vars

\* a call whose arguments are an array that holds an object, and one whose
\* arguments are null: both have a name, neither is reported, both are kept
C22_Witness ==
    /\ HasRead(<<FrameLine(<<>>, "arr0"), FrameLine(<<>>, "null1")>>)
    /\ pc = "reading"
    /\ reported = <<>>
    /\ consoleErrors = {}
    /\ toolCallBuffers = <<[index |-> 0, id |-> C1ID, name |-> LOOKUP, args |-> ARGS_ARRAY],
                           [index |-> 1, id |-> C2ID, name |-> SEARCH, args |-> ARGS_NULL]>>

\* the length of the longest suffix of `data` that is a strict prefix of the
\* begin marker, 0 if there is none
BeginPrefixSuffix(data) ==
    LET hi == IF Len(BEGIN) - 1 < Len(data) THEN Len(BEGIN) - 1 ELSE Len(data)
        ks == { k \in 1..hi : EndsWith(data, SliceTo(BEGIN, k)) }
    IN  IF ks = {} THEN 0 ELSE CHOOSE k \in ks : \A j \in ks : j <= k

\* C23: when no inline call is active and the scanned text (residual plus new
\* content) contains no begin marker, the longest suffix of that text that is
\* a strict prefix of the begin marker is withheld from the visible output
\* and retained as the residual for the next content delta, and everything
\* before the suffix is reported as visible text at once.
C23_PartialBeginRetained ==
    [][ \A line \in Lines(profile) :
            LET data == textToolParserBuffer \o line.content
                k == BeginPrefixSuffix(data)
                visible == stripControlTokens(SliceTo(data, Len(data) - k))
            IN  (/\ ReadsLine(line)
                 /\ line.kind = "frame"
                 /\ line.content # <<>>
                 /\ ~textToolActive.active
                 /\ ~Contains(data, BEGIN)
                 /\ pc' = "reading") =>
                    /\ textToolParserBuffer' = SliceFrom(data, Len(data) - k)
                    /\ visible # <<>> =>
                           \E n \in 1..Len(NewParts) : NewParts[n] = TextPart(visible) ]_vars

\* the bytes the step reads
ChunkRead == SubSeq(received', Len(received) + 1, Len(received'))

\* the step reads one chunk that is one data: line with a frame
ReadsFrame ==
    /\ pc = "reading"
    /\ Len(ChunkRead) > Len(DATA_PREFIX)
    /\ StartsWith(ChunkRead, DATA_PREFIX)
    /\ IndexOf(ChunkRead, <<LF>>) = Len(ChunkRead)
    /\ ParseFrame(SubSeq(ChunkRead, Len(DATA_PREFIX) + 1, Len(ChunkRead) - 1)).ok

\* the content delta of the frame the step reads
ContentRead ==
    ParseFrame(SubSeq(ChunkRead, Len(DATA_PREFIX) + 1, Len(ChunkRead) - 1)).delta.content

\* C24: when a begin marker has been recognised but neither the
\* arguments-begin nor the end marker has arrived yet, the begin marker and
\* the partial header are kept in the residual buffer, no call becomes active
\* and no event is reported for the call, so that the delta that supplies the
\* delimiter finds the complete header.
C24_IncompleteHeaderKept ==
    [][ LET data == textToolParserBuffer \o ContentRead
            b == IndexOf(data, BEGIN)
            rest == SliceFrom(data, b - 1 + Len(BEGIN))
        IN  (/\ ReadsFrame
             /\ ~textToolActive.active
             /\ b # 0
             /\ ~Contains(rest, ARG_BEGIN)
             /\ ~Contains(rest, END)
             /\ pc' = "reading") =>
                /\ textToolParserBuffer' = BEGIN \o rest
                /\ ~textToolActive'.active
                /\ \A n \in 1..Len(NewParts) : ~IsToolCall(NewParts[n]) ]_vars

\* C25: visible text that precedes an inline begin marker in the content is
\* reported as a Text event before the ToolCall event of that inline call:
\* when a frame's scanned text holds visible text before its first begin
\* marker, every inline ToolCall the frame reports comes after a Text event
\* that starts with that text.
C25_TextBeforeInlineCall ==
    [][ LET data == textToolParserBuffer \o ContentRead
            b == IndexOf(data, BEGIN)
            pre == stripControlTokens(SliceTo(data, b - 1))
        IN  (/\ ReadsFrame
             /\ ~textToolActive.active
             /\ b # 0
             /\ pre # <<>>) =>
                \A n \in 1..Len(NewParts) :
                    (IsToolCall(NewParts[n]) /\ NewParts[n].via = "inline") =>
                        \E m \in 1..(n - 1) :
                            IsText(NewParts[m]) /\ StartsWith(NewParts[m].value, pre) ]_vars

\* the inline ToolCalls among the parts
InlineCalls(parts) ==
    LET Inline(part) == IsToolCall(part) /\ part.via = "inline"
    IN  SelectSeq(parts, Inline)

\* the name a header starts with, "unknown_tool" if it starts with none
NameOfHeader(header) ==
    LET n == RunLength(header, 1, HeaderNameChars)
    IN  IF n = 0 THEN UNKNOWN_TOOL ELSE SliceTo(header, n)

\* the number after the name and a colon, NoIndex if the header has no colon
IndexOfHeader(header) ==
    LET c == IndexOf(header, <<":">>)
    IN  IF c = 0 THEN NoIndex
        ELSE DigitsToNumber(SubSeq(header, c + 1, c + RunLength(header, c + 1, Digits)))

\* the ledgers hold the identity of a call with an index, the key of a call
\* without one
LedgerHolds(name, index, input) ==
    IF index # NoIndex THEN <<name, index>> \in emittedTextToolCallIds
    ELSE name \o <<":">> \o JSONStringify(input) \in emittedTextToolCallKeys

\* C26: an inline call whose header is terminated directly by the end marker,
\* with no arguments-begin marker before it, is finalized immediately: unless
\* the ledgers hold it, a ToolCall with the name of the header and the empty
\* object {} is reported, the first of the frame's inline calls; and no inline
\* call is active after the frame when no further begin marker follows.
C26_HeaderEndedByEndMarker ==
    [][ (ReadsFrame /\ ~textToolActive.active) =>
            \A data \in {textToolParserBuffer \o ContentRead} :
            \A b \in {IndexOf(data, BEGIN)} :
            \A rest \in {SliceFrom(data, b - 1 + Len(BEGIN))} :
            \A a \in {IndexOf(rest, ARG_BEGIN)}, e \in {IndexOf(rest, END)} :
            \A header \in {Trim(SliceTo(rest, e - 1))} :
            \A call \in {ToolCallPart(SynthTextCallId, NameOfHeader(header),
                                      JSONParse(<<"{", "}">>).members, "inline",
                                      IndexOfHeader(header))} :
                (b # 0 /\ e # 0 /\ (a = 0 \/ e < a)) =>
                    /\ IF LedgerHolds(call.name, call.index, call.input)
                       THEN \A n \in 1..Len(NewParts) : NewParts[n] # call
                       ELSE /\ InlineCalls(NewParts) # <<>>
                            /\ InlineCalls(NewParts)[1] = call
                    /\ ~Contains(SliceFrom(rest, e - 1 + Len(END)), BEGIN) =>
                           ~textToolActive'.active ]_vars

\* the call "ping" without arguments, reported with the empty object
C26_Witness ==
    /\ HasRead(<<FrameLine(INLINE_EMPTY, "-")>>)
    /\ pc = "reading"
    /\ reported = <<ToolCallPart(SynthTextCallId, PING, <<>>, "inline", NoIndex)>>
    /\ textToolActive = NoTextTool

\* C27: when the end marker of an active inline call is consumed, one final
\* emission attempt is made if the call has not been emitted, and the active
\* call is then cleared whether or not the attempt succeeded: a call whose
\* argument buffer does not parse as a JSON object at its end marker reports
\* no ToolCall and raises no error, a call that parses is reported unless it
\* was emitted before or the ledgers hold it, and the text after the marker
\* is scanned with no call active (here: reported as visible text).
C27_EndMarkerClearsActiveCall ==
    [][ (ReadsFrame /\ textToolActive.active) =>
            \A data \in {textToolParserBuffer \o ContentRead} :
            \A e2 \in {IndexOf(data, END)} :
            \A tail \in {SliceFrom(data, e2 - 1 + Len(END))} :
            \A parsed \in {JSONParse(textToolActive.argBuffer \o SliceTo(data, e2 - 1))} :
            \A call \in {ToolCallPart(SynthTextCallId, ActiveName(textToolActive),
                                      parsed.members, "inline", textToolActive.index)} :
            \A visible \in {stripControlTokens(
                                SliceTo(tail, Len(tail) - longestPartialPrefix(tail)))} :
                (e2 # 0 /\ ~Contains(tail, BEGIN)) =>
                    /\ outcome' # "threw"
                    /\ consoleErrors' = consoleErrors
                    /\ textToolActive' = NoTextTool
                    /\ IF \/ textToolActive.emitted
                          \/ ~(parsed.ok /\ parsed.kind = "object")
                          \/ LedgerHolds(call.name, call.index, call.input)
                       THEN InlineCalls(NewParts) = <<>>
                       ELSE InlineCalls(NewParts) = <<call>>
                    /\ visible # <<>> =>
                           \E n \in 1..Len(NewParts) : NewParts[n] = TextPart(visible) ]_vars

\* a call whose arguments were still incomplete at its end marker: no
\* ToolCall, no error, the call cleared, the text after the marker reported
C27_Witness ==
    /\ HasRead(<<FrameLine(INLINE_OPEN, "-"), FrameLine(END_HI, "-")>>)
    /\ pc = "reading"
    /\ reported = <<TextPart(HI)>>
    /\ textToolActive = NoTextTool
    /\ consoleErrors = {}

\* the (name, index) identities of the inline ToolCalls reported with an index
ReportedIdentities ==
    { <<reported[i].name, reported[i].index>> :
        i \in { j \in 1..Len(reported) :
                  /\ IsToolCall(reported[j])
                  /\ reported[j].via = "inline"
                  /\ reported[j].index # NoIndex } }

\* the (name, canonical JSON of arguments) keys of the ToolCalls reported
ReportedKeys ==
    { reported[i].name \o <<":">> \o JSONStringify(reported[i].input) :
        i \in { j \in 1..Len(reported) : IsToolCall(reported[j]) } }

\* C28: for inline calls that carry a numeric index, the first successful
\* emission for a (name, index) pair is reported and every later attempt for
\* the pair is suppressed, also when its arguments differ; for inline calls
\* without an index, an attempt is suppressed if and only if the (name,
\* canonical JSON of arguments) key is in the ledger.  During a session the
\* identity ledger holds the identities of the inline calls reported with an
\* index, and the key ledger the keys of all calls reported; a frame that
\* brings one complete inline call whose arguments parse reports it unless
\* the ledger of its kind holds it.
C28_InlineDedupByIdentityOrKey ==
    /\ [](pc = "reading" =>
              /\ emittedTextToolCallIds = ReportedIdentities
              /\ emittedTextToolCallKeys = ReportedKeys
              /\ \A i, j \in 1..Len(reported) :
                     (/\ i < j
                      /\ IsToolCall(reported[i]) /\ reported[i].via = "inline"
                      /\ IsToolCall(reported[j]) /\ reported[j].via = "inline"
                      /\ reported[i].index # NoIndex
                      /\ reported[i].index = reported[j].index) =>
                         reported[i].name # reported[j].name)
    /\ [][ (ReadsFrame /\ ~textToolActive.active) =>
               \A data \in {textToolParserBuffer \o ContentRead} :
               \A b \in {IndexOf(data, BEGIN)} :
               \A rest \in {SliceFrom(data, b - 1 + Len(BEGIN))} :
               \A a \in {IndexOf(rest, ARG_BEGIN)} :
               \A body \in {SliceFrom(rest, a - 1 + Len(ARG_BEGIN))} :
               \A e \in {IndexOf(body, END)} :
               \A header \in {Trim(SliceTo(rest, a - 1))} :
               \A parsed \in {JSONParse(SliceTo(body, e - 1))} :
               \A call \in {ToolCallPart(SynthTextCallId, NameOfHeader(header),
                                         parsed.members, "inline", IndexOfHeader(header))} :
                   (/\ b # 0 /\ a # 0 /\ e # 0
                    /\ ~Contains(SliceTo(rest, a - 1), END)
                    /\ ~Contains(SliceFrom(body, e - 1 + Len(END)), BEGIN)
                    /\ parsed.ok /\ parsed.kind = "object") =>
                       InlineCalls(NewParts) =
                           IF LedgerHolds(call.name, call.index, call.input)
                           THEN <<>> ELSE <<call>> ]_vars

\* search:0 reported with {"q":1}; the same identity with {"q":2} suppressed
C28_Witness ==
    /\ HasRead(<<FrameLine(INLINE_FULL, "-"), FrameLine(INLINE_OTHER, "-")>>)
    /\ pc = "reading"
    /\ reported = <<ToolCallPart(SynthTextCallId, SEARCH, OBJ_Q1, "inline", 0)>>

\* C29: when equivalent tool-call content (same name, arguments with equal
\* canonical JSON) reaches both the structured path and the inline path in
\* one session, in either order and whether or not the inline call carries an
\* index, only one ToolCall event is reported for it: no ToolCall of one path
\* has the name and the canonical arguments of a ToolCall of the other.
C29_OneCallAcrossPaths ==
    \A i, j \in 1..Len(reported) :
        (/\ IsToolCall(reported[i]) /\ reported[i].via = "structured"
         /\ IsToolCall(reported[j]) /\ reported[j].via = "inline") =>
            ~(/\ reported[i].name = reported[j].name
              /\ JSONStringify(reported[i].input) = JSONStringify(reported[j].input))

\* the whitespace Text event; no content delta of the vocabularies it is
\* checked on consists of one blank
HINT == TextPart(<<" ">>)

\* the structured tool_calls list of the frame the step reads
ToolCallsRead ==
    ParseFrame(SubSeq(ChunkRead, Len(DATA_PREFIX) + 1, Len(ChunkRead) - 1)).delta.tool_calls

\* the whitespace Text event has been reported at most once
HintOnce == Cardinality({ i \in 1..Len(reported) : reported[i] = HINT }) <= 1

\* the places of the whitespace Text event among the parts the step reports
HintAt == { n \in 1..Len(NewParts) : NewParts[n] = HINT }

\* a step reports the whitespace Text event exactly when it reads the first
\* frame with a non-empty tool_calls list after some visible Text event has
\* been reported (that frame's own text included)
HintWhenDue ==
    \A new \in {NewParts} :
        IF ReadsFrame
        THEN /\ HintAt # {} <=>
                    /\ ToolCallsRead # <<>>
                    /\ \A i \in 1..Len(reported) : reported[i] # HINT
                    /\ \/ \E i \in 1..Len(reported) : IsText(reported[i])
                       \/ \E n \in 1..Len(new) : IsText(new[n]) /\ new[n] # HINT
             /\ \A n \in HintAt :
                    \/ \E m \in 1..(n - 1) : IsText(new[m])
                    \/ \E i \in 1..Len(reported) : IsText(reported[i])
        ELSE HintAt = {}

\* C30 (as stated): in a session the whitespace Text event (" ") is reported
\* at most once; it is reported while processing the first frame that carries
\* a non-empty structured tool_calls list after some visible Text event has
\* been reported, it precedes every ToolCall reported from that frame, and it
\* is never reported when no visible text has been reported before the
\* structured tool call appears.
C30_HintOnceBeforeToolCalls ==
    /\ []HintOnce
    /\ [][ /\ HintWhenDue
           /\ \A n \in HintAt : \A m \in 1..Len(NewParts) :
                  IsToolCall(NewParts[m]) => n < m ]_vars

\* C30 (amended): as stated, but the whitespace Text event precedes every
\* ToolCall reported from that frame's structured tool_calls list; a ToolCall
\* of an inline call in the same frame's content is reported before it.
C30_HintOnceBeforeStructuredCalls ==
    /\ []HintOnce
    /\ [][ /\ HintWhenDue
           /\ \A n \in HintAt : \A m \in 1..Len(NewParts) :
                  (IsToolCall(NewParts[m]) /\ NewParts[m].via = "structured") => n < m ]_vars

\* text, then two frames with structured calls: the hint once, before the
\* first of the calls
C30_Witness ==
    /\ HasRead(<<FrameLine(HI, "-"), FrameLine(<<>>, "full1"), FrameLine(<<>>, "search0")>>)
    /\ pc = "reading"
    /\ reported = <<TextPart(HI), HINT,
                    ToolCallPart(C2ID, LOOKUP, OBJ_QX, "structured", 1),
                    ToolCallPart(C3ID, SEARCH, OBJ_Q1, "structured", 0)>>

\* the argument text parses as a JSON object
ParsesAsObject(text) == JSONParse(text).ok /\ JSONParse(text).kind = "object"

\* the ToolCalls a finalization reports for the buffered calls whose
\* arguments parse, in the order of the buffers
FinalizedCalls(buffers) ==
    LET Ready(buf) == ParsesAsObject(buf.args)
        ready == SelectSeq(buffers, Ready)
    IN  [k \in 1..Len(ready) |->
            ToolCallPart(IF ready[k].id = <<>> THEN SynthCallId ELSE ready[k].id,
                         IF ready[k].name = <<>> THEN UNKNOWN_TOOL ELSE ready[k].name,
                         JSONParse(ready[k].args).members, "structured", ready[k].index)]

\* C31: a [DONE] frame is recognised before any JSON parsing is attempted,
\* runs the non-strict finalization of the tool-call buffers followed by the
\* flush of the active inline call, and does not end the read loop: the step
\* reports the buffered calls whose arguments parse, then the active inline
\* call if its arguments parse and no ledger holds it, raises and logs
\* nothing, and the session reads on; frames that arrive after [DONE] are
\* folded through the pipeline like the frames before it.
C31_DoneFinalizesAndReadsOn ==
    /\ [][ ReadsLine(DoneLine) =>
               \A flushed \in {FinalizedCalls(toolCallBuffers)} :
               \A a \in {textToolActive} :
               \A call \in {ToolCallPart(SynthTextCallId, ActiveName(a),
                                         JSONParse(a.argBuffer).members, "inline", a.index)} :
               \A due \in {/\ a.active
                           /\ ParsesAsObject(a.argBuffer)
                           /\ ~LedgerHolds(call.name, call.index, call.input)
                           /\ \A k \in 1..Len(flushed) :
                                  ~(/\ a.index = NoIndex
                                    /\ flushed[k].name = call.name
                                    /\ JSONStringify(flushed[k].input)
                                           = JSONStringify(call.input))} :
                   /\ NewParts = flushed \o (IF due THEN <<call>> ELSE <<>>)
                   /\ outcome' # "threw"
                   /\ consoleErrors' = consoleErrors
                   /\ IF isCancellationRequested THEN outcome' = "cancelled"
                      ELSE /\ pc' = "reading"
                           /\ textToolActive' =
                                  IF a.active /\ ParsesAsObject(a.argBuffer)
                                  THEN NoTextTool ELSE a ]_vars
    /\ [](pc \in {"reading", "returned"} =>
              reported = EventsInLineOrder(ResetForRequest(Fresh), LinesReceived))

\* [DONE] reports the nameless call of index 0 whose arguments parse; the
\* frame after it is read and its call reported
C31_Witness ==
    /\ HasRead(<<FrameLine(<<>>, "noname0"), DoneLine, FrameLine(<<>>, "full1")>>)
    /\ pc = "reading"
    /\ reported = <<ToolCallPart(C1ID, UNKNOWN_TOOL, <<>>, "structured", 0),
                    ToolCallPart(C2ID, LOOKUP, OBJ_QX, "structured", 1)>>

\* the provider after the lines have been folded through the pipeline
RECURSIVE StateAfterLines(_, _)
StateAfterLines(t, lines) ==
    IF lines = <<>> THEN t
    ELSE StateAfterLines(ProcessLine(t, lines[1]).t, Tail(lines))

\* C32: a buffered structured call whose arguments still do not parse as a
\* JSON object when [DONE] is processed is dropped for good: the step that
\* reads [DONE] removes its buffer entry, and no later step of the session
\* reports a ToolCall of that index built from the content accumulated
\* before [DONE], whatever fragments arrive afterwards.
C32_UnparsedCallDroppedAtDone ==
    /\ [][ (ReadsLine(DoneLine) /\ pc' = "reading") =>
               \A k \in 1..Len(toolCallBuffers) :
                   ~ParsesAsObject(toolCallBuffers[k].args)
                       => ~HasBuffer(toolCallBuffers', toolCallBuffers[k].index) ]_vars
    /\ [][ \A lines \in {LinesReceived} :
           \A p \in 1..Len(lines) :
               lines[p] = DATA_PREFIX \o DONE =>
                   \A s \in {StateAfterLines(ResetForRequest(Fresh), SubSeq(lines, 1, p - 1))} :
                   \A i \in 1..Len(NewParts) :
                       ~(/\ IsToolCall(NewParts[i])
                         /\ NewParts[i].via = "structured"
                         /\ HasBuffer(s.toolCallBuffers, NewParts[i].index)
                         /\ \A held \in {GetBuffer(s.toolCallBuffers, NewParts[i].index).args} :
                                /\ ~ParsesAsObject(held)
                                /\ StartsWith(JSONStringify(NewParts[i].input), held)) ]_vars

\* C37: in every reachable state of a session no stream index is both in
\* the tool-call buffer map and in the completed-index set, and the buffer
\* entry of an index is removed in the step that reports its ToolCall.
C37_BufferedOrCompleted ==
    /\ [](\A k \in 1..Len(toolCallBuffers) :
              toolCallBuffers[k].index \notin completedToolCallIndices)
    /\ [][ \A i \in 1..Len(NewParts) :
               (IsToolCall(NewParts[i]) /\ NewParts[i].via = "structured")
                   => ~HasBuffer(toolCallBuffers', NewParts[i].index) ]_vars

\* index 0 waits in the buffer map without a name while index 1 has been
\* reported and completed
C37_Witness ==
    /\ HasRead(<<FrameLine(<<>>, "noname0"), FrameLine(<<>>, "full1")>>)
    /\ pc = "reading"
    /\ HasBuffer(toolCallBuffers, 0)
    /\ ~HasBuffer(toolCallBuffers, 1)
    /\ completedToolCallIndices = {1}
    /\ reported = <<ToolCallPart(C2ID, LOOKUP, OBJ_QX, "structured", 1)>>

\* the finish_reason of the frame read by the step
FinishRead ==
    ParseFrame(SubSeq(ChunkRead, Len(DATA_PREFIX) + 1, Len(ChunkRead) - 1)).delta.finish

TextsOf(parts) == SelectSeq(parts, IsText)

\* C40: content located after an inline call's arguments-begin marker and
\* before its end marker is consumed is never reported as a Text event,
\* whether or not the call has been emitted early: while a call is active,
\* a content delta without the end marker reports no Text and is appended
\* whole to the call's argument buffer, so that all later content is
\* withheld while the end marker does not arrive; of a delta with the end
\* marker only what follows the marker is scanned for visible text.
C40_ArgumentsNeverVisible ==
    [][ (ReadsFrame /\ textToolActive.active /\ ContentRead # <<>> /\ ToolCallsRead = <<>>) =>
            \A data \in {textToolParserBuffer \o ContentRead} :
            \A e2 \in {IndexOf(data, END)} :
                IF e2 = 0
                THEN /\ TextsOf(NewParts) = <<>>
                     /\ pc' = "reading" =>
                            /\ textToolActive'.active
                            /\ textToolActive'.argBuffer = textToolActive.argBuffer \o data
                ELSE \A after \in {SubSeq(data, e2 + Len(END), Len(data))} :
                     \A outside \in {processTextContent(
                                        [Fresh EXCEPT !.emittedTextToolCallIds = {},
                                                      !.emittedTextToolCallKeys = {}],
                                        after).t.reported} :
                         TextsOf(NewParts) = TextsOf(outside) ]_vars

\* the content of the frames read so far, joined
RECURSIVE JoinContent(_)
JoinContent(deltas) ==
    IF deltas = <<>> THEN <<>> ELSE deltas[1].content \o JoinContent(Tail(deltas))

\* the text holds an arguments-begin marker with no end marker after it
RECURSIVE OpenArguments(_)
OpenArguments(text) ==
    LET a == IndexOf(text, ARG_BEGIN)
        rest == SliceFrom(text, a - 1 + Len(ARG_BEGIN))
        e == IndexOf(rest, END)
    IN  /\ a # 0
        /\ (e = 0 \/ OpenArguments(SliceFrom(rest, e - 1 + Len(END))))

\* C40 as stated: once the content of the session holds an arguments-begin
\* marker whose end marker has not arrived, no later content without the end
\* marker is reported as a Text event.
C40_WithheldUntilEndMarker ==
    [][ (/\ ReadsFrame
         /\ OpenArguments(JoinContent(FramesRead))
         /\ IndexOf(ContentRead, END) = 0)
            => TextsOf(NewParts) = <<>> ]_vars

\* the call was emitted early when its arguments parsed; the text "Hi" that
\* followed went into the argument buffer and no Text was reported
C40_Witness ==
    /\ HasRead(<<FrameLine(INLINE_ARGS, "-"), FrameLine(HI, "-")>>)
    /\ pc = "reading"
    /\ reported = <<ToolCallPart(SynthTextCallId, SEARCH, OBJ_Q1, "inline", 0)>>
    /\ textToolActive.active
    /\ textToolActive.emitted
    /\ textToolActive.argBuffer = ARGS_Q1 \o HI

\* C39: a final data: line that no line feed ends when the transport signals
\* completion is never decoded: the step that ends the stream reports no
\* event and logs nothing whatever the line buffer holds, so that the events
\* of a completed session are those of its terminated lines; an unterminated
\* trailing [DONE] or finish frame runs no flush of the tool-call buffers.
C39_UnterminatedLineNeverDecoded ==
    /\ [][ (pc = "reading" /\ pc' = "returned" /\ outcome' = "completed") =>
               /\ reported' = reported
               /\ consoleErrors' = consoleErrors ]_vars
    /\ []((pc = "returned" /\ outcome = "completed") =>
              reported = EventsInLineOrder(ResetForRequest(Fresh), LinesReceived))

\* the whole body was received, its last line [DONE] without a line feed was
\* left in the line buffer, and the nameless call was never reported
C39_Witness ==
    /\ received = BODY_DONE_UNTERMINATED
    /\ pc = "returned"
    /\ outcome = "completed"
    /\ buffer = DATA_PREFIX \o DONE
    /\ reported = <<>>

\* the message is a User message that consists only of tool-result parts
OnlyToolResults(message) ==
    /\ message.role = USER
    /\ \A k \in 1..Len(message.content) : message.content[k].kind = "toolResult"

\* the callIds of the tool results of the messages i + 1 .. i + n
ResultIdsAfter(messages, i, n) ==
    UNION { { messages[j].content[k].callId : k \in 1..Len(messages[j].content) } :
              j \in (i + 1)..(i + n) }

C33_LaterSessionUnaffected ==
    lastCall.fn = "provideLanguageModelChatResponse" =>
        /\ pc = "fetching" =>
               /\ toolCallBuffers = <<>>
               /\ completedToolCallIndices = {}
               /\ ~hasEmittedAssistantText
               /\ ~emittedBeginToolCallsHint
               /\ textToolParserBuffer = <<>>
               /\ textToolActive = NoTextTool
               /\ emittedTextToolCallKeys = {}
               /\ emittedTextToolCallIds = {}
        /\ pc \in {"reading", "returned"} =>
               reported = EventsInLineOrder(Fresh, LinesReceived)

\* the first session completed and left the identity search:0 in the ledger;
\* the second session reports the call of that identity again
C33_Witness ==
    /\ lastCall.fn = "provideLanguageModelChatResponse"
    /\ lastCall.outcome = "completed"
    /\ lastCall.ids = {<<SEARCH, 0>>}
    /\ HasRead(<<FrameLine(INLINE_FULL, "-")>>)
    /\ pc = "reading"
    /\ reported = <<ToolCallPart(SynthTextCallId, SEARCH, OBJ_Q1, "inline", 0)>>

\* C34: two streaming sessions that run concurrently on one provider
\* instance operate on the same buffers, ledgers and residual text: the
\* start-of-request reset of the second session empties them whatever the
\* first session holds there, while the first session, as long as it runs
\* alone, reports the events of its lines folded in order.  (That there are
\* interleavings in which a session reports another event sequence than
\* alone is what the witness shows.)
C34_SessionsShareState ==
    /\ [][ (lastCall = NoCall /\ lastCall' # NoCall) =>
               /\ toolCallBuffers' = <<>>
               /\ completedToolCallIndices' = {}
               /\ textToolParserBuffer' = <<>>
               /\ textToolActive' = NoTextTool
               /\ emittedTextToolCallKeys' = {}
               /\ emittedTextToolCallIds' = {}
               /\ reported' = reported ]_vars
    /\ []((lastCall = NoCall /\ pc \in {"reading", "returned"}) =>
              reported = EventsInLineOrder(Fresh, LinesReceived))

\* the first session received both fragments of the call of index 0 and
\* reported nothing, the second session having started in between; alone it
\* reports the call
C34_Witness ==
    /\ lastCall # NoCall
    /\ HasRead(<<FrameLine(<<>>, "open0"), FrameLine(<<>>, "close0")>>)
    /\ pc = "reading"
    /\ reported = <<>>
    /\ EventsInLineOrder(Fresh, LinesReceived)
           = <<ToolCallPart(C1ID, LOOKUP, OBJ_QX, "structured", 0)>>

IsThinking(part) == part.type = "Thinking"

\* the delta of the frame the step reads
DeltaRead == ParseFrame(SubSeq(ChunkRead, Len(DATA_PREFIX) + 1, Len(ChunkRead) - 1)).delta

\* the text of a thinking payload: the string itself, or the string under
\* the object's `text`; empty when there is none
PayloadText(p) ==
    CASE p.kind = "string" -> p.text
      [] p.kind = "object" /\ p.text.kind = "string" -> p.text.text
      [] OTHER -> <<>>

\* the Thinking event of a payload: its text, and an object's id and metadata
PayloadPart(p) ==
    ThinkingPart(PayloadText(p),
                 IF p.kind = "object" /\ p.id.kind = "string" THEN p.id.text ELSE <<>>,
                 IF p.kind = "object" THEN p.metadata ELSE <<>>)

\* what the frame reports when its thinking payloads are taken away
PlainParts ==
    SubSeq(processDelta(This, [DeltaRead EXCEPT !.choiceThinking = ThinkingAbsent,
                                                !.deltaThinking = ThinkingAbsent]).t.reported,
           Len(reported) + 1,
           Len(processDelta(This, [DeltaRead EXCEPT !.choiceThinking = ThinkingAbsent,
                                                    !.deltaThinking = ThinkingAbsent]).t.reported))

\* C35 as stated: when the host supports thinking parts, a frame whose
\* choice or delta carries a thinking payload with non-empty text reports
\* exactly one Thinking event with that text (and the object's id and
\* metadata) before every Text and ToolCall event of the frame; a payload
\* with empty or missing text reports none; and whatever the host, the
\* content and the tool_calls of the frame are processed.
C35_ThinkingOfChoiceOrDelta ==
    [][ ReadsFrame =>
            \A plain \in {PlainParts} :
            \A carried \in {{ p \in {DeltaRead.choiceThinking, DeltaRead.deltaThinking} :
                                PayloadText(p) # <<>> }} :
                IF Host = "thinking" /\ carried # {}
                THEN \E p \in carried : NewParts = <<PayloadPart(p)>> \o plain
                ELSE NewParts = plain ]_vars

\* C35: when the host supports thinking parts, a frame whose thinking
\* payload (the choice's member unless it is absent or null, else the
\* delta's) has non-empty text reports exactly one Thinking event with that
\* text (and the object's id and metadata) before every Text and ToolCall
\* event of the frame; a payload with empty or missing text reports none;
\* and whatever the host, a constructor that throws included, the content
\* and the tool_calls of the frame are processed.
C35_ThinkingOfChoiceElseDelta ==
    [][ ReadsFrame =>
            \A plain \in {PlainParts} :
            \A p \in {IF DeltaRead.choiceThinking.kind \notin {"undefined", "null"}
                      THEN DeltaRead.choiceThinking ELSE DeltaRead.deltaThinking} :
                IF Host = "thinking" /\ PayloadText(p) # <<>>
                THEN NewParts = <<PayloadPart(p)>> \o plain
                ELSE NewParts = plain ]_vars

\* one frame with the thinking text "hm" in its delta, the content "Hi" and
\* a complete structured call: Thinking, Text, the hint, the ToolCall
C35_Witness ==
    /\ profile = "reasoning"
    /\ HasRead(<<FrameLine(HI, "think1")>>)
    /\ reported = <<ThinkingPart(HM, <<>>, <<>>), TextPart(HI), HINT,
                    ToolCallPart(C2ID, LOOKUP, OBJ_QX, "structured", 1)>>

=============================================================================
